---- MODULE Spec2Model ----
(***************************************************************************)
(* A model of the Discord bot of this repository: the command router with  *)
(* its channel restrictions, the persona handlers, the persona-by-channel  *)
(* cache, the startup channel sync, auto-chat, the /chat session map and   *)
(* the HTTP client of the agent service.                                   *)
(*                                                                         *)
(* Strings whose characters matter (names, messages) are sequences of      *)
(* one-character strings, so that toLowerCase, trim and the slug regexes   *)
(* are computed rather than assumed.                                       *)
(***************************************************************************)
EXTENDS Integers, Sequences, FiniteSets, TLC

\* ------------------------------------------------------------------ bounds

\* Largest channel id the guild hands out (ids 1..3 exist at startup).
MaxChannelId == 5
\* Number of clock ticks the model lets pass.
MaxTicks == 2
\* Milliseconds per clock tick.
TickMs == 15000
\* The most getPersonaForChannel calls that await listPersonas at once.
MaxInflight == 1
\* The most messages the split message handler takes.
MaxMessages == 3
\* The most message handlers that await their lookup at once.
MaxPending == 2

\* ------------------------------------------------------------- characters

LowerChars == {"a", "b", "g", "l", "n", "o", "h", "i", "e"}
DigitChars == {"1", "2"}

\* String.prototype.toLowerCase, one character.
LowerChar(c) ==
  CASE c = "A" -> "a"
    [] c = "B" -> "b"
    [] c = "G" -> "g"
    [] c = "L" -> "l"
    [] OTHER -> c

\* String.prototype.toLowerCase.
ToLower(s) == [i \in DOMAIN s |-> LowerChar(s[i])]

IsSpace(c) == c = " "

RECURSIVE TrimLeft(_)
TrimLeft(s) ==
  IF s = <<>> THEN <<>>
  ELSE IF IsSpace(Head(s)) THEN TrimLeft(Tail(s)) ELSE s

RECURSIVE TrimRight(_)
TrimRight(s) ==
  IF s = <<>> THEN <<>>
  ELSE IF IsSpace(s[Len(s)]) THEN TrimRight(SubSeq(s, 1, Len(s) - 1)) ELSE s

\* String.prototype.trim.
Trim(s) == TrimRight(TrimLeft(s))

\* The character class [a-z0-9] of slugifyPersonaName.
IsSlugChar(c) == c \in LowerChars \cup DigitChars

RECURSIVE DropNonSlug(_)
DropNonSlug(s) ==
  IF s = <<>> THEN <<>>
  ELSE IF IsSlugChar(Head(s)) THEN s ELSE DropNonSlug(Tail(s))

\* .replace(/[^a-z0-9]+/g, "-")
RECURSIVE ReplaceRuns(_)
ReplaceRuns(s) ==
  IF s = <<>> THEN <<>>
  ELSE IF IsSlugChar(Head(s)) THEN <<Head(s)>> \o ReplaceRuns(Tail(s))
  ELSE <<"-">> \o ReplaceRuns(DropNonSlug(Tail(s)))

RECURSIVE StripLeftDash(_)
StripLeftDash(s) ==
  IF s = <<>> THEN <<>>
  ELSE IF Head(s) = "-" THEN StripLeftDash(Tail(s)) ELSE s

RECURSIVE StripRightDash(_)
StripRightDash(s) ==
  IF s = <<>> THEN <<>>
  ELSE IF s[Len(s)] = "-" THEN StripRightDash(SubSeq(s, 1, Len(s) - 1)) ELSE s

\* .replace(/^-+|-+$/g, "")
StripDashes(s) == StripRightDash(StripLeftDash(s))

slugifyPersonaName(name) == StripDashes(ReplaceRuns(Trim(ToLower(name))))

isAdminChannel(channelName, adminChannelName) ==
  ToLower(channelName) = ToLower(adminChannelName)

\* String.prototype.startsWith("/")
StartsWithSlash(s) == Len(s) > 0 /\ s[1] = "/"

\* ---------------------------------------------------------- configuration

\* config.discord.adminChannelName (DISCORD_ADMIN_CHANNEL).
adminChannelName == <<"g", "e", "n">>

PERSONAS_CATEGORY_NAME == <<"P">>

CACHE_TTL_MS == 30000

ADMIN_CHANNEL_COMMANDS_WithMemories ==
  {"persona create", "persona delete", "persona list", "persona rename", "memories"}

ADMIN_CHANNEL_COMMANDS ==
  {"persona create", "persona delete", "persona list", "persona rename"}

PERSONA_CHANNEL_COMMANDS == {"persona edit", "imagine", "remember"}

\* ------------------------------------------------------------- value sets

\* channel_id: string | null; 0 stands for null, channel ids are positive.
NullId == 0

\* Persona names the commands are tried with.
PersonaNames == { <<"A", "l">>, <<"B", " ", "2">> }

\* Persona | null, as a sequence of length 0 or 1.
None == <<>>
Some(x) == <<x>>

\* ------------------------------------------------------------------ state

VARIABLES
  agentPersonas,   \* agent service: the personas, in the order listPersonas returns them
  agentSessions,   \* agent service: channel ids that have a channel session
  agentMemories,   \* agent service: persona names that have memories
  channels,        \* guild.channels.cache: records [id, name, type, parent]
  nextChannelId,   \* the id Discord gives the next created channel
  personaCache,    \* personaCache: channel id -> [persona, expires, storedAt]
  now,             \* Date.now()
  isReady,         \* isReady of the health server
  last,            \* history: the handler that ran last, what it was given and what it did
  activeSessions,  \* chat.ts activeSessions: session key -> session id
  chatLast,        \* history: the /chat call handled last
  chatHistory,     \* history: the session stored per (user, lower-cased persona), and each session's user
  http,            \* history: the AgentClient call made last and the fetches it issued
  health,          \* history: the health request answered last, and whether 200 was ever answered
  inflight,        \* getPersonaForChannel calls awaiting their listPersonas response
  autoChat         \* history: the messages counted as they arrived and the chat requests sent, in order

vars == <<agentPersonas, agentSessions, agentMemories, channels, nextChannelId,
          personaCache, now, isReady, last, activeSessions, chatLast, chatHistory, http,
          health, inflight, autoChat>>

botVars == <<agentPersonas, agentSessions, agentMemories, channels, nextChannelId,
             personaCache, now, isReady, last>>

auxVars == <<health, inflight, autoChat>>

\* A map with no entries.
EmptyMap == [x \in {} |-> x]

\* Map.prototype.set
MapSet(m, k, v) == [x \in DOMAIN m \cup {k} |-> IF x = k THEN v ELSE m[x]]

\* Map.prototype.delete
MapDelete(m, k) == [x \in DOMAIN m \ {k} |-> m[x]]

\* ------------------------------------------------------- the agent service
\* The service is an external collaborator (README, "API Endpoints"): a
\* store of personas keyed by name, of channel sessions and of memories.

RECURSIVE IndexOfName(_, _)
IndexOfName(list, name) ==
  IF list = <<>> THEN 0
  ELSE IF list[Len(list)].name = name /\ IndexOfName(SubSeq(list, 1, Len(list) - 1), name) = 0
       THEN Len(list)
       ELSE IndexOfName(SubSeq(list, 1, Len(list) - 1), name)

HasPersona(list, name) == IndexOfName(list, name) # 0

PersonaByName(list, name) == list[IndexOfName(list, name)]

\* POST /api/personas
AgentCreatePersona(list, name) == Append(list, [name |-> name, channel_id |-> NullId])

\* PATCH /api/personas/{name} with channel_id
AgentSetChannel(list, name, cid) ==
  [i \in DOMAIN list |->
     IF list[i].name = name THEN [list[i] EXCEPT !.channel_id = cid] ELSE list[i]]

RECURSIVE RemoveName(_, _)
RemoveName(list, name) ==
  IF list = <<>> THEN <<>>
  ELSE IF Head(list).name = name THEN RemoveName(Tail(list), name)
  ELSE <<Head(list)>> \o RemoveName(Tail(list), name)

\* DELETE /api/personas/{name}
AgentDeletePersona(list, name) == RemoveName(list, name)

\* POST /api/personas/{name}/rename
AgentRenamePersona(list, name, newName) ==
  [i \in DOMAIN list |->
     IF list[i].name = name THEN [list[i] EXCEPT !.name = newName] ELSE list[i]]

\* The rename endpoint migrates the persona's memories to the new name.
AgentRenameMemories(mem, name, newName) ==
  IF name \in mem THEN (mem \ {name}) \cup {newName} ELSE mem

\* The persona the service holds for a channel id, if any (ground truth).
RECURSIVE FindByChannel(_, _)
FindByChannel(list, channelId) ==
  IF list = <<>> THEN None
  ELSE IF Head(list).channel_id = channelId THEN Some(Head(list))
  ELSE FindByChannel(Tail(list), channelId)

\* ------------------------------------------------------- utils/channel.ts

ChannelIds(chs) == {c.id : c \in chs}

\* guild.channels.cache.find(category named "Personas", case-insensitively)
FindPersonasCategory(chs) ==
  {c \in chs : c.type = "category"
               /\ ToLower(c.name) = ToLower(PERSONAS_CATEGORY_NAME)}

\* getOrCreatePersonasCategory: [ok, channels, nextId, category]. catOk is
\* whether guild.channels.create succeeds; it fails when the guild is full.
getOrCreatePersonasCategory(chs, nextId, catOk) ==
  IF FindPersonasCategory(chs) # {}
  THEN [ok |-> TRUE, channels |-> chs, nextId |-> nextId,
        category |-> (CHOOSE c \in FindPersonasCategory(chs) :
                        \A d \in FindPersonasCategory(chs) : c.id <= d.id).id]
  ELSE IF catOk /\ nextId <= MaxChannelId
  THEN [ok |-> TRUE,
        channels |-> chs \cup {[id |-> nextId, name |-> PERSONAS_CATEGORY_NAME,
                                type |-> "category", parent |-> NullId]},
        nextId |-> nextId + 1, category |-> nextId]
  ELSE [ok |-> FALSE, channels |-> chs, nextId |-> nextId, category |-> NullId]

\* createPersonaChannel: [ok, channels, nextId, channel]; throws (ok = FALSE)
\* when the category or the channel cannot be created.
createPersonaChannel(chs, nextId, personaName, catOk, chanOk) ==
  LET cat == getOrCreatePersonasCategory(chs, nextId, catOk) IN
  IF ~cat.ok
  THEN [ok |-> FALSE, channels |-> chs, nextId |-> nextId, channel |-> NullId]
  ELSE IF chanOk /\ cat.nextId <= MaxChannelId
  THEN [ok |-> TRUE,
        channels |-> cat.channels \cup
                     {[id |-> cat.nextId, name |-> slugifyPersonaName(personaName),
                       type |-> "text", parent |-> cat.category]},
        nextId |-> cat.nextId + 1, channel |-> cat.nextId]
  ELSE [ok |-> FALSE, channels |-> cat.channels, nextId |-> cat.nextId,
        channel |-> NullId]

\* deletePersonaChannel: [deleted, channels]. delOk is whether channel.delete
\* succeeds; a failure is caught and reported as false.
deletePersonaChannel(chs, channelId, delOk) ==
  IF channelId \in ChannelIds(chs) /\ delOk
  THEN [deleted |-> TRUE, channels |-> {c \in chs : c.id # channelId}]
  ELSE [deleted |-> FALSE, channels |-> chs]

renamePersonaChannelReportsSuccess(chs, channelId, newPersonaName, nameOk, topicOk) ==
  IF channelId \in ChannelIds(chs) /\ nameOk
  THEN [renamed |-> TRUE,
        channels |-> {IF c.id = channelId
                      THEN [c EXCEPT !.name = slugifyPersonaName(newPersonaName)]
                      ELSE c : c \in chs}]
  ELSE [renamed |-> TRUE, channels |-> chs]

\* renamePersonaChannel: [renamed, channels]. setName and setTopic may each
\* fail; a failure of setTopic leaves the new name in place.
renamePersonaChannel(chs, channelId, newPersonaName, nameOk, topicOk) ==
  IF channelId \in ChannelIds(chs) /\ nameOk
  THEN [renamed |-> topicOk,
        channels |-> {IF c.id = channelId
                      THEN [c EXCEPT !.name = slugifyPersonaName(newPersonaName)]
                      ELSE c : c \in chs}]
  ELSE [renamed |-> FALSE, channels |-> chs]

CacheValidInclusive(entry, t) == entry.expires >= t

\* cached.expires > Date.now()
CacheValid(entry, t) == entry.expires > t

RECURSIVE FindPersonaAnyChannel(_, _)
FindPersonaAnyChannel(list, channelId) ==
  IF list = <<>> THEN None
  ELSE IF Head(list).channel_id # NullId THEN Some(Head(list))
  ELSE FindPersonaAnyChannel(Tail(list), channelId)

\* personas.find((p) => p.channel_id === channelId) || null
RECURSIVE FindPersona(_, _)
FindPersona(list, channelId) ==
  IF list = <<>> THEN None
  ELSE IF Head(list).channel_id = channelId THEN Some(Head(list))
  ELSE FindPersona(Tail(list), channelId)

\* getPersonaForChannel: [persona, cache, requests] and, as history,
\* whether it answered from the cache and how listPersonas went ("ok",
\* "failed", or "no" when it was not called). listOk is whether
\* agentClient.listPersonas succeeds. storedAt is history: the time the
\* entry was stored.
getPersonaForChannel(cache, list, t, channelId, listOk) ==
  IF channelId \in DOMAIN cache /\ CacheValid(cache[channelId], t)
  THEN [persona |-> cache[channelId].persona, cache |-> cache,
        requests |-> <<>>, fromCache |-> TRUE, listed |-> "no"]
  ELSE IF listOk
  THEN [persona |-> FindPersona(list, channelId),
        cache |-> MapSet(cache, channelId,
                         [persona |-> FindPersona(list, channelId),
                          expires |-> t + CACHE_TTL_MS, storedAt |-> t]),
        requests |-> <<"listPersonas">>, fromCache |-> FALSE, listed |-> "ok"]
  ELSE [persona |-> None, cache |-> cache,
        requests |-> <<"listPersonas">>, fromCache |-> FALSE, listed |-> "failed"]

invalidatePersonaCacheWhole(cache, channelId) == EmptyMap

\* invalidatePersonaCache(channelId?): 0 stands for no argument; a null or
\* empty channel id is falsy too.
invalidatePersonaCache(cache, channelId) ==
  IF channelId # NullId THEN MapDelete(cache, channelId) ELSE EmptyMap

\* ---------------------------------------------------------- the handlers
\* A handler is an operator from the state it reads and the outcomes of its
\* awaited calls to the state it leaves, its Discord responses and the
\* agent-service requests it sent, in order.

\* One response to the interaction or message.
Reply(kind, ephemeral, title) == [kind |-> kind, ephemeral |-> ephemeral, title |-> title]

\* One agent-service request: the AgentClient method and its arguments.
Req(op, name, channel) ==
  [op |-> op, name |-> name, channel |-> channel, is_channel_chat |-> FALSE]

\* The state a handler reads and writes.
BotState(personas, sessions, memories, chs, nextId) ==
  [personas |-> personas, sessions |-> sessions, memories |-> memories,
   channels |-> chs, nextId |-> nextId]

\* What a handler returns to the model; results are the lines of the
\* "Cleanup Results" field of /persona delete; steps are, as history, the
\* awaited calls the handler made, in order, each with whether it succeeded.
Done(st, replies, requests, created) ==
  [st |-> st, replies |-> replies, requests |-> requests, created |-> created,
   results |-> <<>>, steps |-> <<>>]

\* One awaited call of a handler and whether it succeeded.
Step(call, ok) == [call |-> call, ok |-> ok]

handlePersonaCreateKeepOnUpdateFailure(st, name, o) ==
  LET made == createPersonaChannel(st.channels, st.nextId, name, o.catOk, o.chanOk)
      withP == AgentCreatePersona(st.personas, name)
  IN
  IF ~(o.createOk /\ ~HasPersona(st.personas, name))
  THEN Done(st, <<Reply("defer", FALSE, ""), Reply("editReply", FALSE, "Error")>>,
            <<Req("createPersona", name, NullId), Req("interpretError", <<>>, NullId)>>,
            NullId)
  ELSE IF ~made.ok
  THEN Done([st EXCEPT !.personas = withP, !.channels = made.channels,
                       !.nextId = made.nextId],
            <<Reply("defer", FALSE, ""),
              Reply("editReply", FALSE, "Persona Created (Channel Failed)")>>,
            <<Req("createPersona", name, NullId), Req("interpretError", name, NullId)>>,
            NullId)
  ELSE Done([st EXCEPT !.personas = AgentSetChannel(withP, name, IF o.updOk THEN made.channel ELSE NullId),
                       !.channels = made.channels, !.nextId = made.nextId],
            <<Reply("defer", FALSE, ""), Reply("editReply", FALSE, "Persona Created")>>,
            <<Req("createPersona", name, NullId),
              Req("updatePersona", name, made.channel)>>,
            made.channel)

handlePersonaCreateNoCleanup(st, name, o) ==
  LET made == createPersonaChannel(st.channels, st.nextId, name, o.catOk, o.chanOk)
      withP == AgentCreatePersona(st.personas, name)
  IN
  IF ~(o.createOk /\ ~HasPersona(st.personas, name))
  THEN [Done(st, <<Reply("defer", FALSE, ""), Reply("editReply", FALSE, "Error")>>,
             <<Req("createPersona", name, NullId), Req("interpretError", <<>>, NullId)>>,
             NullId)
        EXCEPT !.steps = <<Step("createPersona", FALSE)>>]
  ELSE IF ~made.ok
  THEN [Done([st EXCEPT !.personas = withP, !.channels = made.channels,
                        !.nextId = made.nextId],
             <<Reply("defer", FALSE, ""),
               Reply("editReply", FALSE, "Persona Created (Channel Failed)")>>,
             <<Req("createPersona", name, NullId), Req("interpretError", name, NullId)>>,
             NullId)
        EXCEPT !.steps = <<Step("createPersona", TRUE),
                           Step("createPersonaChannel", FALSE)>>]
  ELSE IF o.updOk
  THEN [Done([st EXCEPT !.personas = AgentSetChannel(withP, name, made.channel),
                        !.channels = made.channels, !.nextId = made.nextId],
             <<Reply("defer", FALSE, ""), Reply("editReply", FALSE, "Persona Created")>>,
             <<Req("createPersona", name, NullId),
               Req("updatePersona", name, made.channel)>>,
             made.channel)
        EXCEPT !.steps = <<Step("createPersona", TRUE),
                           Step("createPersonaChannel", TRUE),
                           Step("updatePersona", TRUE)>>]
  ELSE [Done([st EXCEPT !.personas = withP, !.channels = made.channels,
                        !.nextId = made.nextId],
             <<Reply("defer", FALSE, ""), Reply("editReply", FALSE, "Error")>>,
             <<Req("createPersona", name, NullId),
               Req("updatePersona", name, made.channel),
               Req("interpretError", <<>>, NullId)>>,
             made.channel)
        EXCEPT !.steps = <<Step("createPersona", TRUE),
                           Step("createPersonaChannel", TRUE),
                           Step("updatePersona", FALSE)>>]

\* handlePersonaCreate. o: createOk (createPersona succeeds), catOk, chanOk
\* (the category and the channel are created), updOk (updatePersona
\* succeeds), chDelOk, pDelOk (the cleanup's channel.delete and
\* deletePersona succeed). created is the channel this call created and
\* left in place, or null.
handlePersonaCreate(st, name, o) ==
  LET made == createPersonaChannel(st.channels, st.nextId, name, o.catOk, o.chanOk)
      withP == AgentCreatePersona(st.personas, name)
  IN
  IF ~(o.createOk /\ ~HasPersona(st.personas, name))
  THEN \* createPersona threw: nothing to clean up
       [Done(st, <<Reply("defer", FALSE, ""), Reply("editReply", FALSE, "Error")>>,
             <<Req("createPersona", name, NullId), Req("interpretError", <<>>, NullId)>>,
             NullId)
        EXCEPT !.steps = <<Step("createPersona", FALSE)>>]
  ELSE IF ~made.ok
  THEN \* channel creation failed: the persona is kept without a channel
       [Done([st EXCEPT !.personas = withP, !.channels = made.channels,
                        !.nextId = made.nextId],
             <<Reply("defer", FALSE, ""),
               Reply("editReply", FALSE, "Persona Created (Channel Failed)")>>,
             <<Req("createPersona", name, NullId), Req("interpretError", name, NullId)>>,
             NullId)
        EXCEPT !.steps = <<Step("createPersona", TRUE),
                           Step("createPersonaChannel", FALSE)>>]
  ELSE IF o.updOk
  THEN [Done([st EXCEPT !.personas = AgentSetChannel(withP, name, made.channel),
                        !.channels = made.channels, !.nextId = made.nextId],
             <<Reply("defer", FALSE, ""), Reply("editReply", FALSE, "Persona Created")>>,
             <<Req("createPersona", name, NullId),
               Req("updatePersona", name, made.channel)>>,
             made.channel)
        EXCEPT !.steps = <<Step("createPersona", TRUE),
                           Step("createPersonaChannel", TRUE),
                           Step("updatePersona", TRUE)>>]
  ELSE \* updatePersona threw: delete the channel and the persona, errors ignored
       [Done([st EXCEPT
                !.personas = IF o.pDelOk THEN AgentDeletePersona(withP, name) ELSE withP,
                !.channels = deletePersonaChannel(made.channels, made.channel,
                                                  o.chDelOk).channels,
                !.nextId = made.nextId],
             <<Reply("defer", FALSE, ""), Reply("editReply", FALSE, "Error")>>,
             <<Req("createPersona", name, NullId),
               Req("updatePersona", name, made.channel),
               Req("deletePersona", name, NullId),
               Req("interpretError", <<>>, NullId)>>,
             IF o.chDelOk THEN NullId ELSE made.channel)
        EXCEPT !.steps = <<Step("createPersona", TRUE),
                           Step("createPersonaChannel", TRUE),
                           Step("updatePersona", FALSE),
                           Step("channel.delete", o.chDelOk),
                           Step("deletePersona", o.pDelOk)>>]

\* The catch block of handlePersonaCreate when the reply of the try block
\* fails after result r: channel (when the channel was created) and persona
\* are set, so both are deleted, errors ignored. cl: chDelOk, pDelOk.
handlePersonaCreateCaught(r, name, cl) ==
  [r EXCEPT
     !.st = [r.st EXCEPT
               !.personas = IF cl.pDelOk THEN AgentDeletePersona(@, name) ELSE @,
               !.channels = IF r.created # NullId
                            THEN deletePersonaChannel(@, r.created, cl.chDelOk).channels
                            ELSE @],
     !.requests = @ \o <<Req("deletePersona", name, NullId),
                         Req("interpretError", <<>>, NullId)>>,
     !.steps = @ \o (IF r.created # NullId
                     THEN <<Step("channel.delete", cl.chDelOk)>> ELSE <<>>)
                \o <<Step("deletePersona", cl.pDelOk)>>,
     !.created = IF r.created # NullId /\ ~cl.chDelOk THEN r.created ELSE NullId]

\* The channel_id the service holds for a persona name, null when it holds
\* no such persona.
ChannelOfName(list, name) ==
  IF HasPersona(list, name) THEN PersonaByName(list, name).channel_id ELSE NullId

\* The lines handlePersonaDelete pushes to results, in order.
DeleteResults(st, name, o) ==
  LET cid == ChannelOfName(st.personas, name) IN
  (IF cid = NullId THEN <<>>
   ELSE IF ~o.sessOk THEN <<"Session: failed to delete">>
   ELSE IF cid \in st.sessions THEN <<"Session data deleted">>
   ELSE <<"Session: none found">>)
  \o (IF ~o.memOk THEN <<"Memories: failed to delete">>
      ELSE IF name \in st.memories THEN <<"memories deleted">>
      ELSE <<"Memories: none found">>)
  \o (IF cid = NullId THEN <<"Channel: none associated">>
      ELSE IF deletePersonaChannel(st.channels, cid, o.chDelOk).deleted
      THEN <<"Channel deleted">>
      ELSE <<"Channel: not found or already deleted">>)
  \o (IF o.pDelOk THEN <<"Persona configuration deleted">> ELSE <<>>)

handlePersonaDeleteIgnoreLastFailure(st, name, confirm, o) ==
  LET cid == ChannelOfName(st.personas, name)
      sessReq == IF cid # NullId THEN <<Req("deleteChannelSession", <<>>, cid)>> ELSE <<>>
  IN
  IF ~confirm
  THEN Done(st, <<Reply("reply", TRUE, "Deletion cancelled")>>, <<>>, NullId)
  ELSE IF ~(o.getOk /\ HasPersona(st.personas, name))
  THEN Done(st, <<Reply("defer", FALSE, ""),
                  Reply("editReply", FALSE, "Persona Not Found")>>,
            <<Req("getPersona", name, NullId)>>, NullId)
  ELSE [Done(BotState(IF o.pDelOk THEN AgentDeletePersona(st.personas, name)
                      ELSE st.personas,
                      IF cid # NullId /\ o.sessOk THEN st.sessions \ {cid} ELSE st.sessions,
                      IF o.memOk THEN st.memories \ {name} ELSE st.memories,
                      IF cid # NullId
                      THEN deletePersonaChannel(st.channels, cid, o.chDelOk).channels
                      ELSE st.channels,
                      st.nextId),
             <<Reply("defer", FALSE, ""), Reply("editReply", FALSE, "Persona Deleted")>>,
             <<Req("getPersona", name, NullId)>> \o sessReq
               \o <<Req("deletePersonaMemories", name, NullId),
                    Req("deletePersona", name, NullId)>>,
             NullId)
        EXCEPT !.results = DeleteResults(st, name, o)]

\* The awaited calls of handlePersonaDelete after the confirmation, in order.
DeleteSteps(st, name, o) ==
  LET cid == ChannelOfName(st.personas, name) IN
  IF ~(o.getOk /\ HasPersona(st.personas, name))
  THEN <<Step("getPersona", FALSE)>>
  ELSE <<Step("getPersona", TRUE)>>
       \o (IF cid # NullId THEN <<Step("deleteChannelSession", o.sessOk)>> ELSE <<>>)
       \o <<Step("deletePersonaMemories", o.memOk)>>
       \o (IF cid # NullId
           THEN <<Step("deletePersonaChannel",
                       deletePersonaChannel(st.channels, cid, o.chDelOk).deleted)>>
           ELSE <<>>)
       \o <<Step("deletePersona", o.pDelOk)>>

handlePersonaDeleteConfirmedStopOnFailure(st, name, o) ==
  LET cid == ChannelOfName(st.personas, name)
      sessReq == IF cid # NullId THEN <<Req("deleteChannelSession", <<>>, cid)>> ELSE <<>>
      sessStep == IF cid # NullId THEN <<Step("deleteChannelSession", o.sessOk)>> ELSE <<>>
      sessions1 == IF cid # NullId /\ o.sessOk THEN st.sessions \ {cid} ELSE st.sessions
      chans1 == IF cid # NullId
                THEN deletePersonaChannel(st.channels, cid, o.chDelOk).channels
                ELSE st.channels
      personas1 == IF o.pDelOk THEN AgentDeletePersona(st.personas, name) ELSE st.personas
  IN
  IF ~(o.getOk /\ HasPersona(st.personas, name))
  THEN [Done(st, <<Reply("defer", FALSE, ""),
                   Reply("editReply", FALSE, "Persona Not Found")>>,
             <<Req("getPersona", name, NullId)>>, NullId)
        EXCEPT !.steps = DeleteSteps(st, name, o)]
  ELSE IF ~o.memOk
  THEN [Done(BotState(st.personas, sessions1, st.memories, st.channels, st.nextId),
             <<Reply("defer", FALSE, ""), Reply("editReply", FALSE, "Error")>>,
             <<Req("getPersona", name, NullId)>> \o sessReq
               \o <<Req("deletePersonaMemories", name, NullId),
                    Req("interpretError", <<>>, NullId)>>, NullId)
        EXCEPT !.steps = <<Step("getPersona", TRUE)>> \o sessStep
                         \o <<Step("deletePersonaMemories", FALSE)>>]
  ELSE [Done(BotState(personas1, sessions1, st.memories \ {name}, chans1, st.nextId),
             <<Reply("defer", FALSE, ""),
               Reply("editReply", FALSE, IF o.pDelOk THEN "Persona Deleted" ELSE "Error")>>,
             <<Req("getPersona", name, NullId)>> \o sessReq
               \o <<Req("deletePersonaMemories", name, NullId),
                    Req("deletePersona", name, NullId)>>
               \o (IF o.pDelOk THEN <<>> ELSE <<Req("interpretError", <<>>, NullId)>>),
             NullId)
        EXCEPT !.results = IF o.pDelOk THEN DeleteResults(st, name, o) ELSE <<>>,
               !.steps = DeleteSteps(st, name, o)]

\* handlePersonaDelete from deferReply on (confirm is true). o: getOk,
\* sessOk, memOk, pDelOk (getPersona, deleteChannelSession,
\* deletePersonaMemories and deletePersona succeed), chDelOk (channel.delete
\* succeeds).
handlePersonaDeleteConfirmed(st, name, o) ==
  LET cid == ChannelOfName(st.personas, name)
      \* 1. delete the channel session (if the persona has a channel)
      sessReq == IF cid # NullId THEN <<Req("deleteChannelSession", <<>>, cid)>> ELSE <<>>
      sessions1 == IF cid # NullId /\ o.sessOk THEN st.sessions \ {cid} ELSE st.sessions
      \* 2. delete all memories of the persona
      memories1 == IF o.memOk THEN st.memories \ {name} ELSE st.memories
      \* 3. delete the Discord channel
      chans1 == IF cid # NullId
                THEN deletePersonaChannel(st.channels, cid, o.chDelOk).channels
                ELSE st.channels
      \* 4. delete the persona
      personas1 == IF o.pDelOk THEN AgentDeletePersona(st.personas, name) ELSE st.personas
      reqs == <<Req("getPersona", name, NullId)>> \o sessReq
              \o <<Req("deletePersonaMemories", name, NullId),
                   Req("deletePersona", name, NullId)>>
  IN
  IF ~(o.getOk /\ HasPersona(st.personas, name))
  THEN [Done(st, <<Reply("defer", FALSE, ""),
                   Reply("editReply", FALSE, "Persona Not Found")>>,
             <<Req("getPersona", name, NullId)>>, NullId)
        EXCEPT !.steps = DeleteSteps(st, name, o)]
  ELSE IF o.pDelOk
  THEN [Done(BotState(personas1, sessions1, memories1, chans1, st.nextId),
             <<Reply("defer", FALSE, ""), Reply("editReply", FALSE, "Persona Deleted")>>,
             reqs, NullId)
        EXCEPT !.results = DeleteResults(st, name, o),
               !.steps = DeleteSteps(st, name, o)]
  ELSE [Done(BotState(personas1, sessions1, memories1, chans1, st.nextId),
             <<Reply("defer", FALSE, ""), Reply("editReply", FALSE, "Error")>>,
             reqs \o <<Req("interpretError", <<>>, NullId)>>, NullId)
        EXCEPT !.steps = DeleteSteps(st, name, o)]

handlePersonaDeleteUnconfirmed(st, name, confirm, o) ==
  handlePersonaDeleteConfirmed(st, name, o)

\* handlePersonaDelete: nothing is deleted unless confirm is true.
handlePersonaDelete(st, name, confirm, o) ==
  IF ~confirm
  THEN Done(st, <<Reply("reply", TRUE, "Deletion cancelled")>>, <<>>, NullId)
  ELSE handlePersonaDeleteConfirmed(st, name, o)

\* The awaited calls of handlePersonaRename and renamePersonaChannel, in order.
RenameSteps(st, name, newName, o) ==
  LET cid == ChannelOfName(st.personas, name) IN
  IF ~(o.renOk /\ HasPersona(st.personas, name) /\ ~HasPersona(st.personas, newName))
  THEN <<Step("renamePersona", FALSE)>>
  ELSE <<Step("renamePersona", TRUE)>>
       \o (IF cid \in ChannelIds(st.channels)
           THEN <<Step("setName", o.nameOk)>>
                \o (IF o.nameOk THEN <<Step("setTopic", o.topicOk)>> ELSE <<>>)
           ELSE <<>>)

\* handlePersonaRename. o: renOk (renamePersona succeeds), nameOk, topicOk
\* (channel.setName and channel.setTopic succeed).
handlePersonaRename(st, name, newName, o) ==
  LET cid == ChannelOfName(st.personas, name)
      ren == renamePersonaChannel(st.channels, cid, newName, o.nameOk, o.topicOk)
  IN
  IF ~(o.renOk /\ HasPersona(st.personas, name) /\ ~HasPersona(st.personas, newName))
  THEN [Done(st, <<Reply("defer", FALSE, ""), Reply("editReply", FALSE, "Error")>>,
             <<Req("renamePersona", name, NullId), Req("interpretError", <<>>, NullId)>>,
             NullId)
        EXCEPT !.steps = RenameSteps(st, name, newName, o)]
  ELSE IF cid # NullId /\ ~ren.renamed
  THEN [Done([st EXCEPT !.personas = AgentRenamePersona(@, name, newName),
                        !.memories = AgentRenameMemories(@, name, newName),
                        !.channels = ren.channels],
             <<Reply("defer", FALSE, ""),
               Reply("editReply", FALSE, "Persona Renamed (Channel Update Failed)")>>,
             <<Req("renamePersona", name, NullId)>>, NullId)
        EXCEPT !.steps = RenameSteps(st, name, newName, o)]
  ELSE [Done([st EXCEPT !.personas = AgentRenamePersona(@, name, newName),
                        !.memories = AgentRenameMemories(@, name, newName),
                        !.channels = IF cid # NullId THEN ren.channels ELSE @],
             <<Reply("defer", FALSE, ""), Reply("editReply", FALSE, "Persona Renamed")>>,
             <<Req("renamePersona", name, NullId)>>, NullId)
        EXCEPT !.steps = RenameSteps(st, name, newName, o)]

\* handlePersonaList: lists the personas; changes nothing.
handlePersonaList(st, listOk) ==
  Done(st, <<Reply("defer", FALSE, ""),
             Reply("editReply", FALSE, IF listOk THEN "Personas" ELSE "Error")>>,
       <<Req("listPersonas", <<>>, NullId)>>, NullId)

\* handlePersonaEdit: hasField is whether personality or appearance was
\* given; the update changes neither the name nor the channel_id.
handlePersonaEdit(st, persona, hasField, updOk) ==
  IF ~hasField
  THEN Done(st, <<Reply("reply", TRUE, "Please provide at least one field")>>, <<>>, NullId)
  ELSE IF updOk /\ HasPersona(st.personas, persona.name)
  THEN Done(st, <<Reply("defer", FALSE, ""), Reply("editReply", FALSE, "Persona Updated")>>,
            <<Req("updatePersona", persona.name, NullId)>>, NullId)
  ELSE Done(st, <<Reply("defer", FALSE, ""), Reply("editReply", FALSE, "Error")>>,
            <<Req("updatePersona", persona.name, NullId),
              Req("interpretError", persona.name, NullId)>>, NullId)

\* handleImagine: one generateImage request for the channel's persona, and
\* interpretError when it fails; changes no persona or channel.
handleImagine(st, persona, genOk) ==
  IF genOk
  THEN Done(st, <<Reply("defer", FALSE, ""), Reply("editReply", FALSE, "Image")>>,
            <<Req("generateImage", persona.name, NullId)>>, NullId)
  ELSE Done(st, <<Reply("defer", FALSE, ""), Reply("editReply", FALSE, "Error")>>,
            <<Req("generateImage", persona.name, NullId),
              Req("interpretError", persona.name, NullId)>>, NullId)

\* handleMemories (commands/memories.ts): reads the memories of a persona.
handleMemories(st, name) ==
  Done(st, <<Reply("defer", FALSE, ""), Reply("editReply", FALSE, "Memories")>>,
       <<Req("listMemories", name, NullId)>>, NullId)

\* handleRemember (commands/remember.ts): generates memories from the
\* channel's session; genOk is whether the request succeeds.
handleRemember(st, persona, channelId, genOk) ==
  Done(IF genOk /\ channelId \in st.sessions
       THEN [st EXCEPT !.memories = @ \cup {persona.name}] ELSE st,
       <<Reply("defer", FALSE, ""), Reply("editReply", FALSE, "Memories Saved")>>,
       <<Req("generateChannelMemories", <<>>, channelId)>>, NullId)

\* ------------------------------------------------------ commands/index.ts

\* The channel an interaction or message comes from: none (interaction.channel
\* is null) or one of the guild's channels.
Places == {None} \cup {Some(c) : c \in {d \in channels : d.type # "category"}}

validateCommandLocationNoAdminCheck(cache, list, t, place, fullCommand, listOk) ==
  LET look == getPersonaForChannel(cache, list, t, place[1].id, listOk) IN
  IF place = None \/ place[1].type # "text"
  THEN [valid |-> FALSE, error |-> "This command must be used in a server text channel.",
        persona |-> None, cache |-> cache, requests |-> <<>>,
        fromCache |-> FALSE, looked |-> FALSE, listed |-> "no"]
  ELSE IF fullCommand \in PERSONA_CHANNEL_COMMANDS
  THEN [valid |-> look.persona # None,
        error |-> IF look.persona # None THEN ""
                  ELSE "This command can only be used in a persona channel",
        persona |-> look.persona, cache |-> look.cache,
        requests |-> [i \in DOMAIN look.requests |-> Req(look.requests[i], <<>>, NullId)],
        fromCache |-> look.fromCache, looked |-> TRUE, listed |-> look.listed]
  ELSE [valid |-> TRUE, error |-> "", persona |-> None, cache |-> cache,
        requests |-> <<>>, fromCache |-> FALSE, looked |-> FALSE, listed |-> "no"]

\* validateCommandLocation: [valid, error, persona, cache, requests] and,
\* as history, whether getPersonaForChannel ran and what it recorded.
validateCommandLocation(cache, list, t, place, fullCommand, listOk) ==
  LET look == getPersonaForChannel(cache, list, t, place[1].id, listOk) IN
  IF place = None \/ place[1].type # "text"
  THEN [valid |-> FALSE, error |-> "This command must be used in a server text channel.",
        persona |-> None, cache |-> cache, requests |-> <<>>,
        fromCache |-> FALSE, looked |-> FALSE, listed |-> "no"]
  ELSE IF fullCommand \in ADMIN_CHANNEL_COMMANDS
  THEN [valid |-> isAdminChannel(place[1].name, adminChannelName),
        error |-> IF isAdminChannel(place[1].name, adminChannelName) THEN ""
                  ELSE "This command can only be used in the admin channel",
        persona |-> None, cache |-> cache, requests |-> <<>>,
        fromCache |-> FALSE, looked |-> FALSE, listed |-> "no"]
  ELSE IF fullCommand \in PERSONA_CHANNEL_COMMANDS
  THEN [valid |-> look.persona # None,
        error |-> IF look.persona # None THEN ""
                  ELSE "This command can only be used in a persona channel",
        persona |-> look.persona, cache |-> look.cache,
        requests |-> [i \in DOMAIN look.requests |-> Req(look.requests[i], <<>>, NullId)],
        fromCache |-> look.fromCache, looked |-> TRUE, listed |-> look.listed]
  ELSE [valid |-> TRUE, error |-> "", persona |-> None, cache |-> cache,
        requests |-> <<>>, fromCache |-> FALSE, looked |-> FALSE, listed |-> "no"]

CurState == BotState(agentPersonas, agentSessions, agentMemories, channels, nextChannelId)

\* interaction.replied and interaction.deferred of a new interaction.
NoFlags == [replied |-> FALSE, deferred |-> FALSE]

\* One response call on the interaction (discord.js): reply and deferReply
\* throw once the interaction is replied or deferred, editReply and followUp
\* throw before that; a call that is allowed may still fail (fail), and
\* then changes no flag. The entry records the flags the call found.
Call(reply, flags, fail) ==
  LET initial == reply.kind \in {"reply", "defer"}
      allowed == IF initial THEN ~(flags.replied \/ flags.deferred)
                 ELSE flags.replied \/ flags.deferred
      ok == allowed /\ ~fail
  IN [entry |-> [call |-> reply.kind, title |-> reply.title,
                 ephemeral |-> reply.ephemeral, replied |-> flags.replied,
                 deferred |-> flags.deferred, ok |-> ok],
      ok |-> ok,
      flags |-> IF ~ok THEN flags
                ELSE IF reply.kind = "defer" THEN [flags EXCEPT !.deferred = TRUE]
                ELSE IF reply.kind = "followUp" THEN flags
                ELSE [flags EXCEPT !.replied = TRUE]]

RecoveryReplyAlwaysReply(flags) == Reply("reply", TRUE, "command failed")

\* The catch blocks of handleCommand and of the InteractionCreate handler:
\* followUp when the interaction is replied or deferred, reply otherwise.
RecoveryReply(flags) ==
  IF flags.replied \/ flags.deferred
  THEN Reply("followUp", TRUE, "command failed")
  ELSE Reply("reply", TRUE, "command failed")

\* The response calls of one interaction. todo are the calls the handler
\* makes when none fails: the first one stands before its try block, a later
\* one in it unless it is the "Error" reply of its catch block. A failing
\* call of the try block is caught by the handler, which replies "Error";
\* any other failing call of the handler is thrown to handleCommand's catch
\* block when the command was valid (the rejection of an invalid command is
\* sent before that try block), and a failure there or of the rejection to
\* the catch block of the InteractionCreate handler. failing is the set of
\* the attempts that fail, counted from 1; acc is [calls, caught, threw].
RECURSIVE Attempt(_, _, _, _, _, _)
Attempt(stage, todo, flags, acc, valid, failing) ==
  LET reply == IF stage \in {"command", "event"} THEN RecoveryReply(flags) ELSE Head(todo)
      c == Call(reply, flags, (Len(acc.calls) + 1) \in failing)
      acc1 == [acc EXCEPT !.calls = Append(@, c.entry)]
  IN
  IF c.ok
  THEN IF stage = "try" /\ Tail(todo) # <<>>
       THEN Attempt("try", Tail(todo), c.flags, acc1, valid, failing)
       ELSE acc1
  ELSE IF stage = "try" /\ acc.calls # <<>> /\ reply.title # "Error"
  THEN Attempt("catch", <<Reply("editReply", FALSE, "Error")>>, flags,
               [acc1 EXCEPT !.caught = TRUE], valid, failing)
  ELSE IF stage \in {"try", "catch"} /\ valid
  THEN Attempt("command", <<>>, flags, [acc1 EXCEPT !.threw = TRUE], valid, failing)
  ELSE IF stage \in {"try", "catch", "command"}
  THEN Attempt("event", <<>>, flags, [acc1 EXCEPT !.threw = TRUE], valid, failing)
  ELSE acc1

\* The response calls of an interaction whose handler plans the replies.
Respond(replies, valid, failing) ==
  Attempt("try", replies, NoFlags, [calls |-> <<>>, caught |-> FALSE, threw |-> FALSE],
          valid, failing)

\* The responses that were sent: the calls that succeeded.
RECURSIVE Sent(_)
Sent(calls) ==
  IF calls = <<>> THEN <<>>
  ELSE (IF Head(calls).ok
        THEN <<Reply(Head(calls).call, Head(calls).ephemeral, Head(calls).title)>>
        ELSE <<>>) \o Sent(Tail(calls))

\* The attempts that may fail: a handler's first call, its reply, the reply
\* of its catch block, and the replies of the two outer catch blocks.
Attempts == 1..5

\* Every response call succeeds.
NoFailures == {{}}

\* The entry the cache holds for a channel, if any.
CacheEntry(cache, channelId) ==
  IF channelId \in DOMAIN cache THEN Some(cache[channelId]) ELSE None

NoLast ==
  [op |-> "none", cmd |-> "", chan |-> NullId, chanName |-> <<>>, chanType |-> "",
   handler |-> "none", replies |-> <<>>, requests |-> <<>>, name |-> <<>>,
   persona |-> None, looked |-> FALSE, fromCache |-> FALSE, entry |-> None,
   at |-> 0, wasPersonaChan |-> FALSE, target |-> NullId, created |-> NullId,
   chanChanged |-> FALSE, sync |-> <<>>, created_list |-> <<>>,
   isBot |-> FALSE, content |-> <<>>, chatOk |-> FALSE, should |-> FALSE,
   response |-> <<>>, said |-> <<>>, results |-> <<>>, listed |-> "no",
   existed |-> FALSE, steps |-> <<>>, confirm |-> FALSE, newName |-> <<>>,
   threw |-> FALSE, calls |-> <<>>]

\* The options of a command that the history keeps besides the name.
NoOptions == [confirm |-> FALSE, newName |-> <<>>, threw |-> FALSE, calls |-> <<>>]

\* What handleCommand leaves: the state of handler result r, the cache, and
\* the history of the call.
FinishWith(fullCommand, place, v, handler, r, cache1, name, opt) ==
  /\ agentPersonas' = r.st.personas
  /\ agentSessions' = r.st.sessions
  /\ agentMemories' = r.st.memories
  /\ channels' = r.st.channels
  /\ nextChannelId' = r.st.nextId
  /\ personaCache' = cache1
  /\ last' = [NoLast EXCEPT
       !.op = "command", !.cmd = fullCommand,
       !.chan = IF place = None THEN NullId ELSE place[1].id,
       !.chanName = IF place = None THEN <<>> ELSE place[1].name,
       !.chanType = IF place = None THEN "" ELSE place[1].type,
       !.handler = handler, !.replies = r.replies,
       !.requests = v.requests \o r.requests, !.name = name,
       !.persona = v.persona, !.looked = v.looked, !.fromCache = v.fromCache,
       !.listed = v.listed,
       !.entry = IF place = None THEN None ELSE CacheEntry(personaCache, place[1].id),
       !.at = now,
       !.wasPersonaChan = place # None /\ FindByChannel(agentPersonas, place[1].id) # None,
       !.target = IF handler = "none" THEN NullId ELSE ChannelOfName(agentPersonas, name),
       !.created = r.created, !.chanChanged = (r.st.channels # channels),
       !.results = r.results, !.existed = HasPersona(agentPersonas, name),
       !.steps = r.steps, !.confirm = opt.confirm, !.newName = opt.newName,
       !.threw = opt.threw, !.calls = opt.calls]
  /\ UNCHANGED <<now, isReady, activeSessions, chatLast, chatHistory, http, auxVars>>

Finish(fullCommand, place, v, handler, r, cache1, name) ==
  FinishWith(fullCommand, place, v, handler, r, cache1, name, NoOptions)

\* handleCommand when validation fails: one ephemeral reply, no handler.
Rejected(v) == Done(CurState, <<Reply("reply", TRUE, v.error)>>, <<>>, NullId)

\* The catch block of a handler after result r of its try block: one
\* interpretError request before the "Error" reply.
Caught(r) == [r EXCEPT !.requests = @ \o <<Req("interpretError", <<>>, NullId)>>]

\* The InteractionCreate handler and handleCommand around one handler run.
\* r is what the handler does when every response call succeeds, caught
\* what it has done when the reply of its try block failed and its catch
\* block ran, cacheAfter the cache once the handler has returned; failing
\* are the response calls that fail. A handler whose first response call
\* fails has done nothing; when the handler throws, handleCommand skips the
\* cache invalidation that follows it and sends interpretError.
Handle(fullCommand, place, v, handler, r, caught, cacheAfter, name, opt, failing) ==
  LET x == Respond(r.replies, v.valid, failing)
      started == x.calls[1].ok
      res == IF ~started THEN Done(CurState, <<>>, <<>>, NullId)
             ELSE IF x.caught THEN caught
             ELSE r
      r1 == [res EXCEPT
               !.replies = Sent(x.calls),
               !.requests = @ \o (IF x.threw /\ v.valid
                                  THEN <<Req("interpretError", <<>>, NullId)>>
                                  ELSE <<>>)]
  IN /\ failing \subseteq 1..Len(x.calls)
     /\ FinishWith(fullCommand, place, v, handler, r1,
                   IF x.threw THEN v.cache ELSE cacheAfter, name,
                   [opt EXCEPT !.threw = x.threw, !.calls = x.calls])

\* The outcomes of the awaited calls of each handler. The outcome of a call
\* the handler never reaches is fixed to TRUE: it is no input of the run.
CreateOutcomes ==
  { o \in [createOk : BOOLEAN, catOk : BOOLEAN, chanOk : BOOLEAN, updOk : BOOLEAN,
           chDelOk : BOOLEAN, pDelOk : BOOLEAN] :
      /\ ~o.createOk => (o.catOk /\ o.chanOk /\ o.updOk)
      /\ ~o.catOk => o.chanOk
      /\ ~(o.catOk /\ o.chanOk) => o.updOk
      /\ o.updOk => (o.chDelOk /\ o.pDelOk) }
DeleteOutcomes ==
  { o \in [getOk : BOOLEAN, sessOk : BOOLEAN, memOk : BOOLEAN, chDelOk : BOOLEAN,
           pDelOk : BOOLEAN] :
      ~o.getOk => (o.sessOk /\ o.memOk /\ o.chDelOk /\ o.pDelOk) }
RenameOutcomes ==
  { o \in [renOk : BOOLEAN, nameOk : BOOLEAN, topicOk : BOOLEAN] :
      /\ ~o.renOk => (o.nameOk /\ o.topicOk)
      /\ ~o.nameOk => o.topicOk }

\* handleCommand for /persona create; F are the sets of failing response
\* calls to consider, cl the outcomes of the cleanup when the reply of the
\* try block fails.
PersonaCreateCommand(F) ==
  /\ isReady
  /\ \E place \in Places, name \in PersonaNames, failing \in F :
       LET v == validateCommandLocation(personaCache, agentPersonas, now, place,
                                        "persona create", TRUE) IN
       IF v.valid
       THEN \E o \in CreateOutcomes, cl \in [chDelOk : BOOLEAN, pDelOk : BOOLEAN] :
              LET r == handlePersonaCreate(CurState, name, o) IN
              /\ ~Respond(r.replies, TRUE, failing).caught
                   => cl = [chDelOk |-> TRUE, pDelOk |-> TRUE]
              /\ Handle("persona create", place, v, "handlePersonaCreate", r,
                        handlePersonaCreateCaught(r, name, cl),
                        invalidatePersonaCache(v.cache, NullId), name, NoOptions, failing)
       ELSE Handle("persona create", place, v, "none", Rejected(v), Rejected(v),
                   v.cache, <<>>, NoOptions, failing)

CmdPersonaCreate == PersonaCreateCommand(NoFailures)

\* handleCommand for /persona delete
PersonaDeleteCommand(F) ==
  /\ isReady
  /\ \E place \in Places, name \in PersonaNames, failing \in F :
       LET v == validateCommandLocation(personaCache, agentPersonas, now, place,
                                        "persona delete", TRUE) IN
       IF v.valid
       THEN \E confirm \in BOOLEAN, o \in DeleteOutcomes :
              /\ ~confirm => o = [getOk |-> TRUE, sessOk |-> TRUE, memOk |-> TRUE,
                                  chDelOk |-> TRUE, pDelOk |-> TRUE]
              /\ Handle("persona delete", place, v, "handlePersonaDelete",
                        handlePersonaDelete(CurState, name, confirm, o),
                        Caught(handlePersonaDelete(CurState, name, confirm, o)),
                        invalidatePersonaCache(v.cache, NullId), name,
                        [NoOptions EXCEPT !.confirm = confirm], failing)
       ELSE Handle("persona delete", place, v, "none", Rejected(v), Rejected(v),
                   v.cache, <<>>, NoOptions, failing)

CmdPersonaDelete == PersonaDeleteCommand(NoFailures)

\* handleCommand for /persona rename
PersonaRenameCommand(F) ==
  /\ isReady
  /\ \E place \in Places, name \in PersonaNames, newName \in PersonaNames, failing \in F :
       LET v == validateCommandLocation(personaCache, agentPersonas, now, place,
                                        "persona rename", TRUE) IN
       IF v.valid
       THEN \E o \in RenameOutcomes :
              Handle("persona rename", place, v, "handlePersonaRename",
                     handlePersonaRename(CurState, name, newName, o),
                     Caught(handlePersonaRename(CurState, name, newName, o)),
                     invalidatePersonaCache(v.cache, NullId), name,
                     [NoOptions EXCEPT !.newName = newName], failing)
       ELSE Handle("persona rename", place, v, "none", Rejected(v), Rejected(v),
                   v.cache, <<>>, NoOptions, failing)

CmdPersonaRename == PersonaRenameCommand(NoFailures)

\* handleCommand for /persona list
PersonaListCommand(F) ==
  /\ isReady
  /\ \E place \in Places, failing \in F :
       LET v == validateCommandLocation(personaCache, agentPersonas, now, place,
                                        "persona list", TRUE) IN
       IF v.valid
       THEN \E listOk \in BOOLEAN :
              Handle("persona list", place, v, "handlePersonaList",
                     handlePersonaList(CurState, listOk),
                     Caught(handlePersonaList(CurState, listOk)), v.cache, <<>>,
                     NoOptions, failing)
       ELSE Handle("persona list", place, v, "none", Rejected(v), Rejected(v),
                   v.cache, <<>>, NoOptions, failing)

CmdPersonaList == PersonaListCommand(NoFailures)

\* handleCommand for /persona edit
PersonaEditCommand(F) ==
  /\ isReady
  /\ \E place \in Places, listOk \in BOOLEAN, failing \in F :
       LET v == validateCommandLocation(personaCache, agentPersonas, now, place,
                                        "persona edit", listOk) IN
       IF v.valid
       THEN \E hasField \in BOOLEAN, updOk \in BOOLEAN :
              /\ ~hasField => updOk
              /\ Handle("persona edit", place, v, "handlePersonaEdit",
                        handlePersonaEdit(CurState, v.persona[1], hasField, updOk),
                        Caught(handlePersonaEdit(CurState, v.persona[1], hasField, updOk)),
                        invalidatePersonaCache(v.cache, v.persona[1].channel_id), <<>>,
                        NoOptions, failing)
       ELSE Handle("persona edit", place, v, "none", Rejected(v), Rejected(v),
                   v.cache, <<>>, NoOptions, failing)

CmdPersonaEdit == PersonaEditCommand(NoFailures)

\* handleCommand for /imagine
ImagineCommand(F) ==
  /\ isReady
  /\ \E place \in Places, listOk \in BOOLEAN, failing \in F :
       LET v == validateCommandLocation(personaCache, agentPersonas, now, place,
                                        "imagine", listOk) IN
       IF v.valid
       THEN \E genOk \in BOOLEAN :
              Handle("imagine", place, v, "handleImagine",
                     handleImagine(CurState, v.persona[1], genOk),
                     Caught(handleImagine(CurState, v.persona[1], genOk)), v.cache, <<>>,
                     NoOptions, failing)
       ELSE Handle("imagine", place, v, "none", Rejected(v), Rejected(v),
                   v.cache, <<>>, NoOptions, failing)

CmdImagine == ImagineCommand(NoFailures)

\* handleCommand for /remember
RememberCommand(F) ==
  /\ isReady
  /\ \E place \in Places, listOk \in BOOLEAN, failing \in F :
       LET v == validateCommandLocation(personaCache, agentPersonas, now, place,
                                        "remember", listOk) IN
       IF v.valid
       THEN \E genOk \in BOOLEAN :
              Handle("remember", place, v, "handleRemember",
                     handleRemember(CurState, v.persona[1], place[1].id, genOk),
                     Caught(handleRemember(CurState, v.persona[1], place[1].id, genOk)),
                     v.cache, <<>>, NoOptions, failing)
       ELSE Handle("remember", place, v, "none", Rejected(v), Rejected(v),
                   v.cache, <<>>, NoOptions, failing)

CmdRemember == RememberCommand(NoFailures)

\* handleCommand for /memories
MemoriesCommand(F) ==
  /\ isReady
  /\ \E place \in Places, name \in PersonaNames, failing \in F :
       LET v == validateCommandLocation(personaCache, agentPersonas, now, place,
                                        "memories", TRUE) IN
       IF v.valid
       THEN Handle("memories", place, v, "handleMemories",
                   handleMemories(CurState, name), Caught(handleMemories(CurState, name)),
                   v.cache, name, NoOptions, failing)
       ELSE Handle("memories", place, v, "none", Rejected(v), Rejected(v),
                   v.cache, <<>>, NoOptions, failing)

CmdMemories == MemoriesCommand(NoFailures)

\* ------------------------------------------------------------- index.ts

\* One chat request of auto-chat.
ChatReq(name, channel) ==
  [op |-> "chat", name |-> name, channel |-> channel, is_channel_chat |-> TRUE]

\* The outcomes of the awaited calls of the message handler; a failed chat
\* has no response.
MessageOutcomes ==
  { o \in [listOk : BOOLEAN, chatOk : BOOLEAN, should : BOOLEAN,
           response : { <<"o", "h">>, <<" ">>, <<>> }] :
      ~o.chatOk => (o.should /\ o.response = <<>>) }

\* The outcome of a message whose handler makes no request.
NoOutcome == [listOk |-> TRUE, chatOk |-> FALSE, should |-> TRUE, response |-> <<>>]

\* Message contents tried: a plain message, a command, blanks, nothing.
Contents == { <<"h", "i">>, <<"/", "h">>, <<" ", " ">>, <<>> }

ShouldReplyAlways(should, response) == Trim(response) # <<>>

\* if (response.should_respond && response.response.trim())
ShouldReply(should, response) == should /\ Trim(response) # <<>>

\* handlePersonaChannelMessage: [st, cache, replies, said, requests, persona,
\* looked, fromCache, listed, chatOk]. A successful chat leaves a channel session
\* in the service.
handlePersonaChannelMessage(st, cache, t, channelId, isBot, content, o) ==
  LET look == getPersonaForChannel(cache, st.personas, t, channelId, o.listOk)
      lookReqs == [i \in DOMAIN look.requests |-> Req(look.requests[i], <<>>, NullId)]
      quiet == [st |-> st, cache |-> cache, replies |-> <<>>, said |-> <<>>,
                requests |-> <<>>, persona |-> None, looked |-> FALSE,
                fromCache |-> FALSE, listed |-> "no", chatOk |-> FALSE]
      found == [quiet EXCEPT !.cache = look.cache, !.requests = lookReqs,
                             !.persona = look.persona, !.looked = TRUE,
                             !.fromCache = look.fromCache, !.listed = look.listed]
      ok == o.chatOk /\ HasPersona(st.personas, look.persona[1].name)
  IN
  IF isBot THEN quiet
  ELSE IF look.persona = None THEN found
  ELSE IF StartsWithSlash(content) THEN found
  ELSE IF Trim(content) = <<>> THEN found
  ELSE IF ok
  THEN [found EXCEPT
          !.st = [st EXCEPT !.sessions = @ \cup {channelId}],
          !.requests = lookReqs \o <<ChatReq(look.persona[1].name, channelId)>>,
          !.chatOk = TRUE,
          !.replies = IF ShouldReply(o.should, o.response)
                      THEN <<Reply("reply", FALSE, "response")>> ELSE <<>>,
          !.said = IF ShouldReply(o.should, o.response) THEN <<o.response>> ELSE <<>>]
  ELSE [found EXCEPT
          !.requests = lookReqs \o <<ChatReq(look.persona[1].name, channelId),
                                     Req("interpretError", look.persona[1].name, NullId)>>,
          !.replies = <<Reply("reply", FALSE, "error")>>]

\* The MessageCreate handler: messages outside a guild are ignored.
MessageCreate ==
  /\ isReady
  /\ \E place \in Places, isBot \in BOOLEAN, content \in Contents, o \in MessageOutcomes :
       /\ place # None
       /\ place[1].type = "text"
       /\ isBot => o = NoOutcome
       /\ (StartsWithSlash(content) \/ Trim(content) = <<>>) =>
            o \in {NoOutcome, [NoOutcome EXCEPT !.listOk = FALSE]}
       /\ LET r == handlePersonaChannelMessage(CurState, personaCache, now,
                                               place[1].id, isBot, content, o) IN
          /\ agentSessions' = r.st.sessions
          /\ personaCache' = r.cache
          /\ last' = [NoLast EXCEPT
               !.op = "message", !.chan = place[1].id, !.chanName = place[1].name,
               !.chanType = place[1].type, !.handler = "handlePersonaChannelMessage",
               !.replies = r.replies, !.requests = r.requests, !.persona = r.persona,
               !.looked = r.looked, !.fromCache = r.fromCache, !.listed = r.listed,
               !.entry = CacheEntry(personaCache, place[1].id), !.at = now,
               !.wasPersonaChan = FindByChannel(agentPersonas, place[1].id) # None,
               !.isBot = isBot, !.content = content, !.chatOk = r.chatOk,
               !.should = o.should, !.response = o.response, !.said = r.said]
  /\ UNCHANGED <<agentPersonas, agentMemories, channels, nextChannelId, now, isReady,
                 activeSessions, chatLast, chatHistory, http, auxVars>>

\* A message with blank content arrives in a text channel whose cache entry
\* is missing or expired: handlePersonaChannelMessage awaits
\* getPersonaForChannel, which awaits listPersonas. The service produces its
\* response now; the handler resumes in LookupEnd.
LookupBegin ==
  /\ isReady
  /\ Len(inflight) < MaxInflight
  /\ \E place \in Places :
       /\ place # None
       /\ place[1].type = "text"
       /\ ~(place[1].id \in DOMAIN personaCache
            /\ CacheValid(personaCache[place[1].id], now))
       /\ inflight' = Append(inflight,
                             [channel |-> place[1], before |-> CacheEntry(personaCache, place[1].id),
                              response |-> FindPersona(agentPersonas, place[1].id)])
  /\ UNCHANGED <<botVars, activeSessions, chatLast, chatHistory, http, health, autoChat>>

\* The listPersonas response of a pending lookup arrives: getPersonaForChannel
\* stores the persona found in it with expires = Date.now() + CACHE_TTL_MS
\* and returns it; the blank message needs no answer.
LookupEnd ==
  \E i \in DOMAIN inflight :
    LET l == inflight[i] IN
    /\ personaCache' = MapSet(personaCache, l.channel.id,
                              [persona |-> l.response, expires |-> now + CACHE_TTL_MS,
                               storedAt |-> now])
    /\ inflight' = [j \in 1..(Len(inflight) - 1) |->
                      IF j < i THEN inflight[j] ELSE inflight[j + 1]]
    /\ last' = [NoLast EXCEPT
         !.op = "message", !.chan = l.channel.id, !.chanName = l.channel.name,
         !.chanType = l.channel.type, !.handler = "handlePersonaChannelMessage",
         !.requests = <<Req("listPersonas", <<>>, NullId)>>, !.persona = l.response,
         !.looked = TRUE, !.listed = "ok", !.entry = l.before, !.at = now,
         !.wasPersonaChan = FindByChannel(agentPersonas, l.channel.id) # None,
         !.content = <<" ", " ">>]
    /\ UNCHANGED <<agentPersonas, agentSessions, agentMemories, channels, nextChannelId,
                   now, isReady, activeSessions, chatLast, chatHistory, http, health, autoChat>>

\* The outcomes of the awaited calls of a message with content "hi": a chat
\* that succeeds answers "oh".
SplitOutcomes ==
  { o \in MessageOutcomes : o.should /\ (o.chatOk <=> o.response = <<"o", "h">>) }

\* The chat requests among the requests of one handler, each with the number
\* of the message it was sent for.
RECURSIVE ChatsOf(_, _)
ChatsOf(requests, n) ==
  IF requests = <<>> THEN <<>>
  ELSE (IF Head(requests).op = "chat"
        THEN <<[message |-> n, channel |-> Head(requests).channel]>> ELSE <<>>)
       \o ChatsOf(Tail(requests), n)

\* What the finished message handler leaves in the history.
MessageDone(c, r, o, content, entry, fromCache, listed) ==
  [NoLast EXCEPT
     !.op = "message", !.chan = c.id, !.chanName = c.name, !.chanType = c.type,
     !.handler = "handlePersonaChannelMessage", !.replies = r.replies,
     !.requests = (IF fromCache THEN <<>> ELSE <<Req("listPersonas", <<>>, NullId)>>)
                  \o r.requests,
     !.persona = r.persona, !.looked = TRUE, !.fromCache = fromCache,
     !.listed = listed, !.entry = entry, !.at = now,
     !.wasPersonaChan = FindByChannel(agentPersonas, c.id) # None,
     !.content = content, !.chatOk = r.chatOk, !.should = o.should,
     !.response = o.response, !.said = r.said]

\* The MessageCreate handler takes a user's message "hi" in a text channel.
\* With a valid cache entry getPersonaForChannel returns without a request
\* and the handler goes on to its chat request at once; otherwise the
\* handler awaits listPersonas and resumes in MessageResume.
MessageArrive ==
  /\ isReady
  /\ autoChat.arrived < MaxMessages
  /\ \E place \in Places, o \in SplitOutcomes :
       /\ place # None
       /\ place[1].type = "text"
       /\ o.listOk
       /\ LET id == place[1].id
              n == autoChat.arrived + 1
              hit == id \in DOMAIN personaCache /\ CacheValid(personaCache[id], now)
              r == handlePersonaChannelMessage(CurState, personaCache, now, id,
                                               FALSE, <<"h", "i">>, o)
          IN
          IF hit
          THEN /\ r.persona = None => ~o.chatOk
               /\ agentSessions' = r.st.sessions
               /\ last' = MessageDone(place[1], r, o, <<"h", "i">>,
                                      CacheEntry(personaCache, id), TRUE, "no")
               /\ autoChat' = [arrived |-> n,
                               sent |-> autoChat.sent \o ChatsOf(r.requests, n)]
               /\ UNCHANGED inflight
          ELSE /\ ~o.chatOk
               /\ Len(inflight) < MaxPending
               /\ inflight' = Append(inflight,
                                     [channel |-> place[1],
                                      before |-> CacheEntry(personaCache, id),
                                      response |-> FindPersona(agentPersonas, id),
                                      message |-> n, content |-> <<"h", "i">>])
               /\ autoChat' = [autoChat EXCEPT !.arrived = n]
               /\ UNCHANGED <<agentSessions, last>>
  /\ UNCHANGED <<agentPersonas, agentMemories, channels, nextChannelId, personaCache,
                 now, isReady, activeSessions, chatLast, chatHistory, http, health>>

\* The listPersonas response of one of the pending handlers arrives, whichever
\* the network delivers first. getPersonaForChannel stores and returns the
\* persona found in it, or returns null when the request failed, and the
\* handler goes on after its await: no persona, no chat; otherwise the chat
\* request, the reply, and interpretError for a failed chat.
MessageResume ==
  \E i \in DOMAIN inflight, o \in SplitOutcomes :
    LET l == inflight[i]
        id == l.channel.id
        cache1 == MapSet(personaCache, id,
                         [persona |-> l.response, expires |-> now + CACHE_TTL_MS,
                          storedAt |-> now])
        r == handlePersonaChannelMessage(CurState, cache1, now, id, FALSE, l.content, o)
        none == [r EXCEPT !.st = CurState, !.replies = <<>>, !.said = <<>>,
                          !.requests = <<>>, !.persona = None, !.chatOk = FALSE]
        res == IF o.listOk THEN r ELSE none
    IN
    /\ (~o.listOk \/ l.response = None) => ~o.chatOk
    /\ personaCache' = IF o.listOk THEN cache1 ELSE personaCache
    /\ agentSessions' = res.st.sessions
    /\ inflight' = [j \in 1..(Len(inflight) - 1) |->
                      IF j < i THEN inflight[j] ELSE inflight[j + 1]]
    /\ last' = MessageDone(l.channel, res, o, l.content, l.before, FALSE,
                           IF o.listOk THEN "ok" ELSE "failed")
    /\ autoChat' = [autoChat EXCEPT
                      !.sent = @ \o ChatsOf(res.requests, l.message)]
    /\ UNCHANGED <<agentPersonas, agentMemories, channels, nextChannelId, now, isReady,
                   activeSessions, chatLast, chatHistory, http, health>>

\* Time passes.
Tick ==
  /\ now < MaxTicks * TickMs
  /\ now' = now + TickMs
  /\ UNCHANGED <<agentPersonas, agentSessions, agentMemories, channels, nextChannelId,
                 personaCache, isReady, last, activeSessions, chatLast, chatHistory, http, auxVars>>

SyncOutcomes == [catOk : BOOLEAN, chanOk : BOOLEAN, updOk : BOOLEAN]

\* What one pass of the loop of syncPersonaChannels found and did (history).
SyncEntry(p, inGuild, attempted, newChannel) ==
  [name |-> p.name, channel_id |-> p.channel_id, inGuild |-> inGuild,
   attempted |-> attempted, newChannel |-> newChannel]

NeedsChannelAlsoWhenNull(p, chs) == p.channel_id \notin ChannelIds(chs)

\* if (persona.channel_id) { if (!guild.channels.cache.get(persona.channel_id)) ...
NeedsChannel(p, chs) == p.channel_id # NullId /\ p.channel_id \notin ChannelIds(chs)

\* The loop of syncPersonaChannels from persona i on; acc is
\* [st, cache, created, errors, requests, log].
RECURSIVE SyncLoop(_, _, _, _)
SyncLoop(personas, i, outs, acc) ==
  IF i > Len(personas) THEN acc
  ELSE
    LET p == personas[i]
        inGuild == p.channel_id \in ChannelIds(acc.st.channels)
        made == createPersonaChannel(acc.st.channels, acc.st.nextId, p.name,
                                     outs[i].catOk, outs[i].chanOk)
        updated == outs[i].updOk /\ HasPersona(acc.st.personas, p.name)
        step ==
          IF ~NeedsChannel(p, acc.st.channels)
          THEN [acc EXCEPT !.log = Append(@, SyncEntry(p, inGuild, FALSE, NullId))]
          ELSE IF ~made.ok
          THEN [acc EXCEPT !.st.channels = made.channels, !.st.nextId = made.nextId,
                           !.errors = Append(@, p.name),
                           !.log = Append(@, SyncEntry(p, inGuild, TRUE, NullId))]
          ELSE IF updated
          THEN [acc EXCEPT !.st.channels = made.channels, !.st.nextId = made.nextId,
                           !.st.personas = AgentSetChannel(@, p.name, made.channel),
                           !.created = Append(@, p.name),
                           !.cache = invalidatePersonaCache(@, NullId),
                           !.requests = Append(@, Req("updatePersona", p.name, made.channel)),
                           !.log = Append(@, SyncEntry(p, inGuild, TRUE, made.channel))]
          ELSE [acc EXCEPT !.st.channels = made.channels, !.st.nextId = made.nextId,
                           !.errors = Append(@, p.name),
                           !.requests = Append(@, Req("updatePersona", p.name, made.channel)),
                           !.log = Append(@, SyncEntry(p, inGuild, TRUE, made.channel))]
    IN SyncLoop(personas, i + 1, outs, step)

\* syncPersonaChannels(guild, personas)
syncPersonaChannels(st, cache, personas, outs) ==
  SyncLoop(personas, 1, outs,
           [st |-> st, cache |-> cache, created |-> <<>>, errors |-> <<>>,
            requests |-> <<>>, log |-> <<>>])

\* The ClientReady handler: isReady, then the sync of the guild; a failing
\* listPersonas is caught and logged.
ClientReady ==
  /\ ~isReady
  /\ isReady' = TRUE
  /\ \E listOk \in BOOLEAN, outs \in [1..Len(agentPersonas) -> SyncOutcomes] :
       LET r == IF listOk
                THEN syncPersonaChannels(CurState, personaCache, agentPersonas, outs)
                ELSE [st |-> CurState, cache |-> personaCache, created |-> <<>>,
                      errors |-> <<>>, requests |-> <<>>, log |-> <<>>]
       IN
       /\ agentPersonas' = r.st.personas
       /\ channels' = r.st.channels
       /\ nextChannelId' = r.st.nextId
       /\ personaCache' = r.cache
       /\ last' = [NoLast EXCEPT
            !.op = "sync", !.handler = "syncPersonaChannels",
            !.requests = <<Req("listPersonas", <<>>, NullId)>> \o r.requests,
            !.sync = r.log, !.created_list = r.created,
            !.chanChanged = (r.st.channels # channels)]
  /\ UNCHANGED <<agentSessions, agentMemories, now, activeSessions, chatLast, chatHistory, http, auxVars>>

\* ------------------------------------------------------ commands/chat.ts

\* interaction.user.id: Discord ids are strings of digits.
UserIds == { <<"1">>, <<"1", "2">> }

\* The persona option of /chat: the same name in two spellings, and a name
\* with a colon.
ChatPersonas == { <<"A", "l">>, <<"a", "l">>, <<"2", ":", "A">> }

\* Number of chat sessions the agent service opens.
MaxSessions == 3

\* Map.prototype.get; undefined is None.
MapGet(m, k) == IF k \in DOMAIN m THEN Some(m[k]) ELSE None

getSessionKeyNoUser(userId, personaName) == <<":">> \o ToLower(personaName)

\* `${userId}:${personaName.toLowerCase()}`
getSessionKey(userId, personaName) == userId \o <<":">> \o ToLower(personaName)

\* The body of POST /api/chat; session_id undefined is None.
ChatBody(personaName, userId, sessionId) ==
  [op |-> "chat", persona_name |-> personaName, user_id |-> userId,
   session_id |-> sessionId]

\* handleChat: [sessions, requests, replies]. chatOk is whether
\* agentClient.chat succeeds, sessionId the session_id of its response.
handleChat(sessions, userId, personaName, chatOk, sessionId) ==
  LET sessionKey == getSessionKey(userId, personaName)
      existingSessionId == MapGet(sessions, sessionKey)
  IN
  IF chatOk
  THEN [sessions |-> MapSet(sessions, sessionKey, sessionId),
        requests |-> <<ChatBody(personaName, userId, existingSessionId)>>,
        replies |-> <<Reply("defer", FALSE, ""), Reply("editReply", FALSE, "response")>>]
  ELSE [sessions |-> sessions,
        requests |-> <<ChatBody(personaName, userId, existingSessionId)>>,
        replies |-> <<Reply("defer", FALSE, ""),
                      Reply("editReply", FALSE, "Failed to chat")>>]

handleChatEndAlwaysForgets(sessions, userId, personaName, endOk) ==
  LET sessionKey == getSessionKey(userId, personaName)
      sessionId == MapGet(sessions, sessionKey)
      body == [ChatBody(personaName, userId, sessionId) EXCEPT !.op = "endSession"]
  IN
  IF sessionId = None
  THEN [sessions |-> sessions, requests |-> <<>>,
        replies |-> <<Reply("defer", TRUE, ""), Reply("editReply", FALSE, "No active session")>>]
  ELSE [sessions |-> MapDelete(sessions, sessionKey), requests |-> <<body>>,
        replies |-> <<Reply("defer", TRUE, ""),
                      Reply("editReply", FALSE,
                            IF endOk THEN "Ended conversation" ELSE "Failed to end session")>>]

\* handleChatEnd: [sessions, requests, replies]. endOk is whether
\* agentClient.endSession succeeds.
handleChatEnd(sessions, userId, personaName, endOk) ==
  LET sessionKey == getSessionKey(userId, personaName)
      sessionId == MapGet(sessions, sessionKey)
      body == [ChatBody(personaName, userId, sessionId) EXCEPT !.op = "endSession"]
  IN
  IF sessionId = None
  THEN [sessions |-> sessions, requests |-> <<>>,
        replies |-> <<Reply("defer", TRUE, ""), Reply("editReply", FALSE, "No active session")>>]
  ELSE IF endOk
  THEN [sessions |-> MapDelete(sessions, sessionKey), requests |-> <<body>>,
        replies |-> <<Reply("defer", TRUE, ""),
                      Reply("editReply", FALSE, "Ended conversation")>>]
  ELSE [sessions |-> sessions, requests |-> <<body>>,
        replies |-> <<Reply("defer", TRUE, ""),
                      Reply("editReply", FALSE, "Failed to end session")>>]

NoChat ==
  [op |-> "none", user |-> <<>>, persona |-> <<>>, ok |-> FALSE, returned |-> 0,
   before |-> EmptyMap, storedBefore |-> None, requests |-> <<>>, replies |-> <<>>]

\* The session ids the agent service may answer a chat with: the session
\* the request names, or a session it opens for the request's user.
SessionAnswers(requests, owner) ==
  (IF requests[1].session_id # None THEN {requests[1].session_id[1]} ELSE {})
  \cup (IF Cardinality(DOMAIN owner) < MaxSessions
        THEN {Cardinality(DOMAIN owner) + 1} ELSE {})

\* The /chat command.
ChatCommand ==
  \E userId \in UserIds, personaName \in ChatPersonas, chatOk \in BOOLEAN :
    \E sessionId \in IF chatOk
                     THEN SessionAnswers(handleChat(activeSessions, userId, personaName,
                                                    FALSE, 0).requests,
                                         chatHistory.owner)
                     ELSE {0} :
      LET r == handleChat(activeSessions, userId, personaName, chatOk, sessionId) IN
      /\ activeSessions' = r.sessions
      /\ chatLast' = [op |-> "chat", user |-> userId, persona |-> personaName,
                      ok |-> chatOk, returned |-> sessionId, before |-> activeSessions,
                      storedBefore |-> MapGet(chatHistory.stored,
                                              <<userId, ToLower(personaName)>>),
                      requests |-> r.requests, replies |-> r.replies]
      /\ chatHistory' =
           IF chatOk
           THEN [stored |-> MapSet(chatHistory.stored, <<userId, ToLower(personaName)>>,
                                   sessionId),
                 owner |-> IF sessionId \in DOMAIN chatHistory.owner
                           THEN chatHistory.owner
                           ELSE MapSet(chatHistory.owner, sessionId, userId)]
           ELSE chatHistory
      /\ UNCHANGED <<botVars, http, auxVars>>

\* The /chat end command.
ChatEndCommand ==
  \E userId \in UserIds, personaName \in ChatPersonas, endOk \in BOOLEAN :
    LET r == handleChatEnd(activeSessions, userId, personaName, endOk) IN
    /\ (r.requests = <<>>) => endOk
    /\ activeSessions' = r.sessions
    /\ chatLast' = [op |-> "end", user |-> userId, persona |-> personaName,
                    ok |-> endOk /\ r.requests # <<>>, returned |-> 0,
                    before |-> activeSessions,
                    storedBefore |-> MapGet(chatHistory.stored,
                                            <<userId, ToLower(personaName)>>),
                    requests |-> r.requests, replies |-> r.replies]
    /\ chatHistory' =
         IF endOk /\ r.requests # <<>>
         THEN [chatHistory EXCEPT
                 !.stored = MapDelete(@, <<userId, ToLower(personaName)>>)]
         ELSE chatHistory
    /\ UNCHANGED <<botVars, http, auxVars>>

\* ------------------------------------------------ services/agent-client.ts

\* What one fetch may bring: a network failure (fetch rejects) or a response
\* with a status, a status text and a body. The body is a JSON object with a
\* truthy detail, a JSON object with an interpretation and no detail, the
\* JSON value null, or no JSON at all; a 204 has no body.
NetworkFailure == [failed |-> TRUE, status |-> 0, statusText |-> "", body |-> "not json"]

Statuses == {200, 204, 404, 502}

StatusTexts == {"", "Bad Gateway"}

Bodies == {"detail", "interpretation", "null", "not json"}

FetchOutcomes ==
  {NetworkFailure} \cup
  { o \in [failed : {FALSE}, status : Statuses, statusText : StatusTexts, body : Bodies] :
      o.status = 204 => o.body = "not json" }

\* response.ok
ResponseOk(status) == status >= 200 /\ status <= 299

\* An error message: a text, followed by a status in `HTTP ${response.status}`.
Msg(text, status) == [text |-> text, status |-> status]

NoMsg == Msg("", 0)

\* What a call returns: undefined, or the parsed JSON body.
Returned(kind, prefix, text) == [kind |-> kind, prefix |-> prefix, text |-> text]

NoReturn == Returned("none", "", "")

\* error.detail || `HTTP ${response.status}`, error being the parsed body or,
\* when the body is no JSON, { detail: response.statusText }.
ErrorMessage(out) ==
  CASE out.body = "detail" -> Msg("detail of the body", 0)
    [] out.body = "interpretation" -> Msg("HTTP ", out.status)
    [] out.body = "null" -> Msg("TypeError: null has no detail", 0)
    [] OTHER -> IF out.statusText # "" THEN Msg(out.statusText, 0)
                ELSE Msg("HTTP ", out.status)

requestRetryOnce(method, path, out) ==
  IF out.failed \/ ~ResponseOk(out.status)
  THEN [fetches |-> <<[method |-> method, path |-> path], [method |-> method, path |-> path]>>,
        threw |-> TRUE,
        message |-> IF out.failed THEN Msg("fetch failed", 0) ELSE ErrorMessage(out),
        returned |-> NoReturn]
  ELSE [fetches |-> <<[method |-> method, path |-> path]>>,
        threw |-> out.status # 204 /\ out.body = "not json",
        message |-> IF out.status # 204 /\ out.body = "not json"
                    THEN Msg("SyntaxError", 0) ELSE NoMsg,
        returned |-> IF out.status = 204 THEN Returned("undefined", "", "")
                     ELSE IF out.body = "not json" THEN NoReturn
                     ELSE Returned("json", "", out.body)]

\* AgentClient.request: [fetches, threw, message, returned]; the catch block
\* logs and rethrows.
request(method, path, out) ==
  LET fetched == <<[method |-> method, path |-> path]>> IN
  IF out.failed
  THEN [fetches |-> fetched, threw |-> TRUE, message |-> Msg("fetch failed", 0),
        returned |-> NoReturn]
  ELSE IF ~ResponseOk(out.status)
  THEN [fetches |-> fetched, threw |-> TRUE, message |-> ErrorMessage(out),
        returned |-> NoReturn]
  ELSE IF out.status = 204
  THEN [fetches |-> fetched, threw |-> FALSE, message |-> NoMsg,
        returned |-> Returned("undefined", "", "")]
  ELSE IF out.body = "not json"
  THEN [fetches |-> fetched, threw |-> TRUE, message |-> Msg("SyntaxError", 0),
        returned |-> NoReturn]
  ELSE [fetches |-> fetched, threw |-> FALSE, message |-> NoMsg,
        returned |-> Returned("json", "", out.body)]

\* generateImageRaw: its own fetch; the body of a 2xx response is read as bytes.
generateImageRaw(out) ==
  LET fetched == <<[method |-> "POST", path |-> "/api/images/generate/raw"]>> IN
  IF out.failed
  THEN [fetches |-> fetched, threw |-> TRUE, message |-> Msg("fetch failed", 0),
        returned |-> NoReturn]
  ELSE IF ~ResponseOk(out.status)
  THEN [fetches |-> fetched, threw |-> TRUE, message |-> ErrorMessage(out),
        returned |-> NoReturn]
  ELSE [fetches |-> fetched, threw |-> FALSE, message |-> NoMsg,
        returned |-> Returned("bytes", "", out.body)]

\* The methods that return this.request(...) as it is.
Methods == {"listPersonas", "getPersona", "deletePersona", "chat"}

MethodVerb(m) ==
  CASE m = "deletePersona" -> "DELETE"
    [] m = "chat" -> "POST"
    [] OTHER -> "GET"

MethodPath(m) ==
  CASE m = "chat" -> "/api/chat"
    [] m = "listPersonas" -> "/api/personas"
    [] OTHER -> "/api/personas/{name}"

\* The error messages interpretError is given.
ErrorTexts == {"boom", "HTTP 500"}

interpretErrorRethrow(errorMessage, out) ==
  LET r == request("POST", "/api/chat/interpret-error", out) IN
  IF r.threw \/ r.returned.kind = "undefined" \/ r.returned.text = "null"
  THEN [r EXCEPT !.threw = TRUE]
  ELSE IF r.returned.text = "interpretation"
  THEN [r EXCEPT !.returned = Returned("string", "", "the interpretation")]
  ELSE [r EXCEPT !.returned = Returned("undefined", "", "")]

\* AgentClient.interpretError: response.interpretation, or the fallback when
\* the request or the property access throws.
interpretError(errorMessage, out) ==
  LET r == request("POST", "/api/chat/interpret-error", out) IN
  IF r.threw \/ r.returned.kind = "undefined" \/ r.returned.text = "null"
  THEN [r EXCEPT !.threw = FALSE, !.message = NoMsg,
                 !.returned = Returned("string", "Something went wrong: ", errorMessage)]
  ELSE IF r.returned.text = "interpretation"
  THEN [r EXCEPT !.returned = Returned("string", "", "the interpretation")]
  ELSE [r EXCEPT !.returned = Returned("undefined", "", "")]

NoCall ==
  [op |-> "none", out |-> NetworkFailure, errorMessage |-> "", fetches |-> <<>>,
   threw |-> FALSE, message |-> NoMsg, returned |-> NoReturn]

\* A caller awaits one AgentClient method.
ClientCall ==
  \E m \in Methods \cup {"generateImageRaw"}, out \in FetchOutcomes :
    LET r == IF m = "generateImageRaw" THEN generateImageRaw(out)
             ELSE request(MethodVerb(m), MethodPath(m), out) IN
    /\ http' = [NoCall EXCEPT !.op = m, !.out = out, !.fetches = r.fetches,
                              !.threw = r.threw, !.message = r.message,
                              !.returned = r.returned]
    /\ UNCHANGED <<botVars, activeSessions, chatLast, chatHistory, auxVars>>

\* A caller awaits agentClient.interpretError.
ClientInterpretError ==
  \E errorMessage \in ErrorTexts, out \in FetchOutcomes :
    LET r == interpretError(errorMessage, out) IN
    /\ http' = [NoCall EXCEPT !.op = "interpretError", !.out = out,
                              !.errorMessage = errorMessage, !.fetches = r.fetches,
                              !.threw = r.threw, !.message = r.message,
                              !.returned = r.returned]
    /\ UNCHANGED <<botVars, activeSessions, chatLast, chatHistory, auxVars>>

\* No health request answered yet.
NoHealth ==
  [path |-> "", status |-> 0, body |-> "", ready |-> FALSE, everHealthy |-> FALSE]

\* The paths of the requests the health server gets.
HealthPaths == {"/health", "/", "/healthz", "/health/"}

fetchHealthOnly(pathname, ready) ==
  IF pathname = "/health"
  THEN IF ready
       THEN [status |-> 200, body |-> "healthy"]
       ELSE [status |-> 503, body |-> "starting"]
  ELSE [status |-> 404, body |-> "Not Found"]

\* fetch of the health server: the status and the body (the status field of
\* the JSON body, or the text of the 404 response).
fetch(pathname, ready) ==
  IF pathname = "/health" \/ pathname = "/"
  THEN IF ready
       THEN [status |-> 200, body |-> "healthy"]
       ELSE [status |-> 503, body |-> "starting"]
  ELSE [status |-> 404, body |-> "Not Found"]

\* The health server answers one request.
HealthRequest ==
  \E pathname \in HealthPaths :
    LET res == fetch(pathname, isReady) IN
    /\ health' = [path |-> pathname, status |-> res.status, body |-> res.body,
                  ready |-> isReady,
                  everHealthy |-> health.everHealthy \/ res.status = 200]
    /\ UNCHANGED <<botVars, activeSessions, chatLast, chatHistory, http, inflight, autoChat>>


\* --------------------------------------------------------- initial states

\* The guild at startup: the admin channel, another text channel and a
\* voice channel that has the admin channel's name.
InitialChannels ==
  { [id |-> 1, name |-> <<"G", "e", "n">>, type |-> "text", parent |-> NullId],
    [id |-> 2, name |-> <<"l", "o", "b">>, type |-> "text", parent |-> NullId],
    [id |-> 3, name |-> <<"g", "e", "n">>, type |-> "voice", parent |-> NullId] }

\* The personas the service may hold at startup.
InitialPersonas ==
  { <<>>,
    <<[name |-> <<"A", "l">>, channel_id |-> 2]>>,
    <<[name |-> <<"A", "l">>, channel_id |-> 99],
      [name |-> <<"B", " ", "2">>, channel_id |-> NullId]>>,
    <<[name |-> <<"B", " ", "2">>, channel_id |-> 99],
      [name |-> <<"A", "l">>, channel_id |-> 99]>> }

\* The channel ids and the names of a list of personas.
ChannelsOf(list) == {list[i].channel_id : i \in DOMAIN list} \ {NullId}
NamesOf(list) == {list[i].name : i \in DOMAIN list}

\* No message taken and no chat request sent yet.
NoAutoChat == [arrived |-> 0, sent |-> <<>>]

InitOther ==
  /\ activeSessions = EmptyMap
  /\ chatLast = NoChat
  /\ chatHistory = [stored |-> EmptyMap, owner |-> EmptyMap]
  /\ http = NoCall
  /\ health = NoHealth
  /\ inflight = <<>>
  /\ autoChat = NoAutoChat

\* The bot starts against a service that may hold personas; a persona whose
\* channel is the guild's channel 2 has a channel session there, and the
\* first persona name has memories.
Init ==
  /\ agentPersonas \in InitialPersonas
  /\ agentSessions = ChannelsOf(agentPersonas) \cap {2}
  /\ agentMemories = NamesOf(agentPersonas) \cap { <<"A", "l">> }
  /\ channels = InitialChannels
  /\ nextChannelId = 4
  /\ personaCache = EmptyMap
  /\ now = 0
  /\ isReady = FALSE
  /\ last = NoLast
  /\ InitOther

\* The persona lifecycle: the startup sync, then creating, deleting and
\* listing personas.
Next ==
  \/ ClientReady
  \/ CmdPersonaCreate
  \/ CmdPersonaDelete
  \/ CmdPersonaList

Spec == Init /\ [][Next]_vars

\* A running bot whose guild has a Personas category and a persona channel.
LookupChannels ==
  { [id |-> 1, name |-> <<"G", "e", "n">>, type |-> "text", parent |-> NullId],
    [id |-> 3, name |-> <<"g", "e", "n">>, type |-> "voice", parent |-> NullId],
    [id |-> 4, name |-> <<"P">>, type |-> "category", parent |-> NullId],
    [id |-> 5, name |-> <<"a", "l">>, type |-> "text", parent |-> 4] }

LookupPersonas ==
  { <<>>,
    <<[name |-> <<"A", "l">>, channel_id |-> 5]>>,
    <<[name |-> <<"A", "l">>, channel_id |-> 5],
      [name |-> <<"B", " ", "2">>, channel_id |-> NullId]>>,
    <<[name |-> <<"B", " ", "2">>, channel_id |-> 5],
      [name |-> <<"A", "l">>, channel_id |-> 5]>> }

InitLookup ==
  /\ agentPersonas \in LookupPersonas
  /\ agentSessions = ChannelsOf(agentPersonas)
  /\ agentMemories = NamesOf(agentPersonas)
  /\ channels = LookupChannels
  /\ nextChannelId = 6
  /\ personaCache = EmptyMap
  /\ now = 0
  /\ isReady = TRUE
  /\ last = NoLast
  /\ InitOther

\* Persona lookups: the persona-channel commands, /memories, auto-chat and
\* the clock.
NextLookup ==
  \/ CmdPersonaEdit
  \/ CmdImagine
  \/ CmdRemember
  \/ CmdMemories
  \/ MessageCreate
  \/ Tick

SpecLookup == InitLookup /\ [][NextLookup]_vars

\* One interaction whose response calls may fail, handled by a running bot.
\* The guild is that of the lookups, or the same guild before persona
\* channel 5 was created, with channel id 5 still free; the cache holds the
\* entries that lookups at time 0 in the channels of warm have stored.
InteractionChannels == {c \in LookupChannels : c.id # 5}

WarmCache(list, warm) ==
  [c \in warm |-> [persona |-> FindPersona(list, c), expires |-> CACHE_TTL_MS,
                   storedAt |-> 0]]

InitInteraction ==
  /\ \/ /\ channels = LookupChannels
        /\ nextChannelId = 6
        /\ agentPersonas \in LookupPersonas
        /\ \E warm \in {{}, {1}, {1, 5}} : personaCache = WarmCache(agentPersonas, warm)
     \/ /\ channels = InteractionChannels
        /\ nextChannelId = 5
        /\ agentPersonas \in {<<>>, <<[name |-> <<"B", " ", "2">>, channel_id |-> NullId]>>}
        /\ \E warm \in {{}, {1}} : personaCache = WarmCache(agentPersonas, warm)
  /\ agentSessions = ChannelsOf(agentPersonas)
  /\ agentMemories = NamesOf(agentPersonas)
  /\ now = 0
  /\ isReady = TRUE
  /\ last = NoLast
  /\ InitOther

\* Any of the response calls of an interaction may fail.
AnyFailures == SUBSET Attempts

InteractionPersonaCreate == PersonaCreateCommand(AnyFailures)
InteractionPersonaDelete == PersonaDeleteCommand(AnyFailures)
InteractionPersonaRename == PersonaRenameCommand(AnyFailures)
InteractionPersonaList == PersonaListCommand(AnyFailures)
InteractionPersonaEdit == PersonaEditCommand(AnyFailures)
InteractionImagine == ImagineCommand(AnyFailures)
InteractionRemember == RememberCommand(AnyFailures)
InteractionMemories == MemoriesCommand(AnyFailures)

\* Each behaviour handles one interaction.
NextInteraction ==
  \/ last = NoLast /\ InteractionPersonaCreate
  \/ last = NoLast /\ InteractionPersonaDelete
  \/ last = NoLast /\ InteractionPersonaRename
  \/ last = NoLast /\ InteractionPersonaList
  \/ last = NoLast /\ InteractionPersonaEdit
  \/ last = NoLast /\ InteractionImagine
  \/ last = NoLast /\ InteractionRemember
  \/ last = NoLast /\ InteractionMemories

SpecInteraction == InitInteraction /\ [][NextInteraction]_vars

\* Lookups that overlap commands: a message's lookup is split at its await,
\* so that /persona rename and /persona delete may run in between; /persona
\* edit looks the channel's persona up afterwards.
InitRace ==
  /\ agentPersonas = <<[name |-> <<"A", "l">>, channel_id |-> 5]>>
  /\ agentSessions = {}
  /\ agentMemories = {}
  /\ channels = LookupChannels
  /\ nextChannelId = 6
  /\ personaCache = EmptyMap
  /\ now = 0
  /\ isReady = TRUE
  /\ last = NoLast
  /\ InitOther

NextRace ==
  \/ LookupBegin
  \/ LookupEnd
  \/ CmdPersonaRename
  \/ CmdPersonaDelete
  \/ CmdPersonaEdit

SpecRace == InitRace /\ [][NextRace]_vars

\* Auto-chat with the message handler split at its await: messages arrive
\* while the lookups of earlier ones are pending, and the cache entry a lookup
\* stores expires as time passes.
NextOrder ==
  \/ MessageArrive
  \/ MessageResume
  \/ Tick

SpecOrder == InitRace /\ [][NextOrder]_vars

\* The health server runs from the start of the process, before and after
\* the client is ready.
NextHealth ==
  \/ ClientReady
  \/ HealthRequest

SpecHealth == Init /\ [][NextHealth]_vars

\* A running bot in the guild of the lookups, which has no free channel
\* id left; the four admin-channel commands, from every channel.
AdminPersonas ==
  { <<>>,
    <<[name |-> <<"A", "l">>, channel_id |-> 5]>>,
    <<[name |-> <<"B", " ", "2">>, channel_id |-> NullId]>> }

InitAdmin ==
  /\ agentPersonas \in AdminPersonas
  /\ agentSessions = {}
  /\ agentMemories = NamesOf(agentPersonas)
  /\ channels = LookupChannels
  /\ nextChannelId = 6
  /\ personaCache = EmptyMap
  /\ now = 0
  /\ isReady = TRUE
  /\ last = NoLast
  /\ InitOther

NextAdmin ==
  \/ CmdPersonaCreate
  \/ CmdPersonaDelete
  \/ CmdPersonaList
  \/ CmdPersonaRename

SpecAdmin == InitAdmin /\ [][NextAdmin]_vars

\* A running bot with an empty guild side: the state of the /chat commands
\* and of the client calls does not depend on it.
InitIdle ==
  /\ agentPersonas = <<>>
  /\ agentSessions = {}
  /\ agentMemories = {}
  /\ channels = LookupChannels
  /\ nextChannelId = 6
  /\ personaCache = EmptyMap
  /\ now = 0
  /\ isReady = TRUE
  /\ last = NoLast
  /\ InitOther

\* The /chat sessions of the users.
NextChat ==
  \/ ChatCommand
  \/ ChatEndCommand

SpecChat == InitIdle /\ [][NextChat]_vars

\* The calls of the HTTP client, each against every answer of the service.
NextClient ==
  \/ ClientCall
  \/ ClientInterpretError

SpecClient == InitIdle /\ [][NextClient]_vars

\* -------------------------------------------------------------- properties

\* The number of requests of a sequence that go to operation op.
CountOp(requests, op) == Cardinality({i \in DOMAIN requests : requests[i].op = op})

\* Exactly one ephemeral reply and nothing else.
OneEphemeralReply(replies) ==
  /\ Len(replies) = 1
  /\ replies[1].kind = "reply"
  /\ replies[1].ephemeral

\* C1: an admin-channel command (persona create, delete, list, rename)
\* invoked in a channel whose name differs from the admin channel name,
\* compared case-insensitively, gets exactly one ephemeral reply, runs no
\* handler, sends no agent-service request and changes no Discord channel.
C1_AdminCommandsRejected ==
  ( /\ last.op = "command"
    /\ last.cmd \in {"persona create", "persona delete", "persona list", "persona rename"}
    /\ last.chan # NullId
    /\ ToLower(last.chanName) # ToLower(adminChannelName) )
  => /\ OneEphemeralReply(last.replies)
     /\ last.handler = "none"
     /\ last.requests = <<>>
     /\ ~last.chanChanged

\* /persona rename was invoked in the persona channel "al" and rejected.
C1_Witness ==
  /\ last.op = "command"
  /\ last.cmd = "persona rename"
  /\ last.chanName = <<"a", "l">>
  /\ last.handler = "none"
  /\ Len(last.replies) = 1

\* The handler handleCommand dispatches a persona-channel command to.
HandlerOf(cmd) ==
  CASE cmd = "persona edit" -> "handlePersonaEdit"
    [] cmd = "imagine" -> "handleImagine"
    [] cmd = "remember" -> "handleRemember"
    [] OTHER -> "none"

\* C2 as stated: a persona-channel command is executed when it is invoked in
\* a text channel whose id is the channel_id of a persona of the agent
\* service, and rejected with an ephemeral error in every other channel.
C2_Original ==
  (last.op = "command" /\ last.cmd \in PERSONA_CHANNEL_COMMANDS)
  => /\ (last.handler # "none") <=> (last.chanType = "text" /\ last.wasPersonaChan)
     /\ (last.handler = "none") => OneEphemeralReply(last.replies)

\* C2 (amended): a persona-channel command is executed if and only if it is
\* invoked in a text channel for which getPersonaForChannel yields a persona:
\* an unexpired cache entry holds one, or a listPersonas request succeeds
\* and lists a persona with that channel_id. Otherwise, also when
\* listPersonas fails in a persona's channel, it is rejected with one
\* ephemeral error and no handler runs.
C2_PersonaCommandsByLookup ==
  (last.op = "command" /\ last.cmd \in PERSONA_CHANNEL_COMMANDS)
  => /\ (last.handler # "none")
          <=> /\ last.chanType = "text"
              /\ \/ last.fromCache /\ last.entry[1].persona # None
                 \/ last.listed = "ok" /\ last.wasPersonaChan
     /\ (last.handler # "none") => last.handler = HandlerOf(last.cmd)
     /\ (last.handler = "none")
          => /\ OneEphemeralReply(last.replies)
             /\ CountOp(last.requests, "listPersonas") = Len(last.requests)

\* /imagine ran in persona channel 5 after a successful listPersonas, and
\* /remember was rejected there because listPersonas failed.
C2_Witness ==
  /\ last.op = "command"
  /\ last.chan = 5
  /\ last.wasPersonaChan
  /\ \/ last.cmd = "imagine" /\ last.handler = "handleImagine" /\ last.listed = "ok"
     \/ last.cmd = "remember" /\ last.handler = "none" /\ last.listed = "failed"

\* The chat requests of the last message.
ChatRequests == {i \in DOMAIN last.requests : last.requests[i].op = "chat"}

\* What C3 says of a message that is to be answered.
AutoChatAnswer ==
  /\ Cardinality(ChatRequests) = 1
  /\ \A i \in ChatRequests :
       last.requests[i].is_channel_chat /\ last.requests[i].channel = last.chan
  /\ last.chatOk =>
       /\ (last.said = <<last.response>>)
            <=> (last.should /\ Trim(last.response) # <<>>)
       /\ (last.said # <<last.response>>) => (last.said = <<>> /\ last.replies = <<>>)
       /\ ~last.should => last.replies = <<>>

\* C3 as stated: every message in the channel of a persona that is not from
\* a bot, does not start with "/" and is not blank gets exactly one chat
\* request and the selective reply.
C3_Original ==
  ( /\ last.op = "message"
    /\ last.wasPersonaChan
    /\ ~last.isBot
    /\ ~StartsWithSlash(last.content)
    /\ Trim(last.content) # <<>> )
  => AutoChatAnswer

\* C3 (amended): for a message in a channel for which getPersonaForChannel
\* yields a persona, not from a bot, not starting with "/" and not blank, the
\* bot sends exactly one chat request (is_channel_chat = true, the message's
\* channel id) and, if it succeeds, replies with the returned text if and
\* only if should_respond is true and the text is non-blank; when the
\* lookup yields no persona (also because listPersonas fails in a persona's
\* channel) it sends no chat request and no reply.
C3_AutoChatSelective ==
  ( /\ last.op = "message"
    /\ ~last.isBot
    /\ ~StartsWithSlash(last.content)
    /\ Trim(last.content) # <<>> )
  => IF last.persona # None
     THEN AutoChatAnswer
     ELSE ChatRequests = {} /\ last.replies = <<>>

\* A message in a persona's channel was answered with the returned text, or
\* got a successful chat that asked for no reply.
C3_Witness ==
  /\ last.op = "message"
  /\ last.persona # None
  /\ last.chatOk
  /\ \/ last.said = << <<"o", "h">> >>
     \/ ~last.should /\ last.response = <<"o", "h">> /\ last.replies = <<>>

\* The title of the reply the last command ended with.
FinalTitle == last.replies[Len(last.replies)].title

\* The persona the last command names has a channel of its own: its
\* channel_id is a text channel this command created under the Personas
\* category.
OwnChannel ==
  /\ last.created # NullId
  /\ ChannelOfName(agentPersonas, last.name) = last.created
  /\ \E c \in channels :
       /\ c.id = last.created
       /\ c.type = "text"
       /\ c.parent \in {k.id : k \in FindPersonasCategory(channels)}

\* C4 as stated: whenever /persona create has finished and the persona it
\* created exists in the agent service, the persona's channel_id is a text
\* channel this command created for it under the Personas category.
C4_Original ==
  ( /\ last.op = "command"
    /\ last.cmd = "persona create"
    /\ last.handler = "handlePersonaCreate"
    /\ ~last.existed
    /\ HasPersona(agentPersonas, last.name) )
  => OwnChannel

\* C4 (amended): whenever /persona create ends with the "Persona Created"
\* reply, the persona exists in the agent service and its channel_id is a
\* text channel this command created for it under the Personas category;
\* a persona the command created and left in the service after any other
\* reply ("Persona Created (Channel Failed)" when the channel could not be
\* created, the error reply when updatePersona and then the cleanup's
\* deletePersona failed) has no channel_id.
C4_CreatedPersonaChannel ==
  ( /\ last.op = "command"
    /\ last.cmd = "persona create"
    /\ last.handler = "handlePersonaCreate" )
  => /\ FinalTitle = "Persona Created"
          => (~last.existed /\ HasPersona(agentPersonas, last.name) /\ OwnChannel)
     /\ ( /\ FinalTitle # "Persona Created"
          /\ ~last.existed
          /\ HasPersona(agentPersonas, last.name) )
          => /\ ChannelOfName(agentPersonas, last.name) = NullId
             /\ FinalTitle \in {"Persona Created (Channel Failed)", "Error"}

\* /persona create "B 2" ended with "Persona Created" and a new channel.
C4_Witness ==
  /\ last.op = "command"
  /\ last.cmd = "persona create"
  /\ last.name = <<"B", " ", "2">>
  /\ FinalTitle = "Persona Created"
  /\ last.created # NullId
  /\ \E c \in channels : c.id = last.created /\ c.name = <<"b", "-", "2">>

\* The lines of the "Cleanup Results" of the last command.
ResultLines == {last.results[i] : i \in DOMAIN last.results}

\* C5 as stated: a /persona delete that ends with "Persona Deleted" has
\* deleted the channel session, the memories, the Discord channel and the
\* persona configuration.
C5_Original ==
  ( /\ last.op = "command"
    /\ last.cmd = "persona delete"
    /\ last.handler = "handlePersonaDelete"
    /\ FinalTitle = "Persona Deleted" )
  => /\ ~HasPersona(agentPersonas, last.name)
     /\ last.name \notin agentMemories
     /\ last.target # NullId
          => (last.target \notin agentSessions /\ last.target \notin ChannelIds(channels))

\* C5 (amended): a /persona delete with confirm=true that ends with
\* "Persona Deleted" has deleted the persona configuration and has attempted
\* the other three in order; each of those may fail without stopping the
\* command, and the cleanup results say so: the channel session is gone
\* unless they say "Session: failed to delete", the memories are gone
\* unless they say "Memories: failed to delete", and the Discord channel
\* is gone when they say "Channel deleted".
C5_DeletedReply ==
  ( /\ last.op = "command"
    /\ last.cmd = "persona delete"
    /\ last.handler = "handlePersonaDelete"
    /\ FinalTitle = "Persona Deleted" )
  => /\ ~HasPersona(agentPersonas, last.name)
     /\ "Persona configuration deleted" \in ResultLines
     /\ [i \in DOMAIN last.requests |-> last.requests[i].op]
          = (IF last.target # NullId
             THEN <<"getPersona", "deleteChannelSession", "deletePersonaMemories",
                    "deletePersona">>
             ELSE <<"getPersona", "deletePersonaMemories", "deletePersona">>)
     /\ "Memories: failed to delete" \notin ResultLines => last.name \notin agentMemories
     /\ (last.target # NullId /\ "Session: failed to delete" \notin ResultLines)
          => last.target \notin agentSessions
     /\ "Channel deleted" \in ResultLines => last.target \notin ChannelIds(channels)

\* "Al" of channel 2 was deleted with session, memories and channel.
C5_Witness ==
  /\ last.op = "command"
  /\ last.cmd = "persona delete"
  /\ FinalTitle = "Persona Deleted"
  /\ last.target = 2
  /\ last.results = <<"Session data deleted", "memories deleted", "Channel deleted",
                      "Persona configuration deleted">>

\* The passes of the last sync.
SyncLog == {last.sync[i] : i \in DOMAIN last.sync}

\* Every persona the sync lists as created has the new channel as its
\* channel_id in the agent service.
CreatedAreUpdated ==
  \A i \in DOMAIN last.created_list :
    \E e \in SyncLog :
      /\ e.name = last.created_list[i]
      /\ e.newChannel # NullId
      /\ ChannelOfName(agentPersonas, e.name) = e.newChannel

\* C6 as stated: the startup sync creates a channel for a persona if and
\* only if it has a non-null channel_id that is no channel of the guild,
\* and every persona in created has its channel_id updated.
C6_Original ==
  last.op = "sync"
  => /\ \A e \in SyncLog :
          (e.newChannel # NullId) <=> (e.channel_id # NullId /\ ~e.inGuild)
     /\ CreatedAreUpdated

\* C6 (amended): the startup sync attempts to create a channel for a
\* persona if and only if the persona has a non-null channel_id that is no
\* channel of the guild; the attempt may fail, and the persona then gets no
\* channel. Personas with no channel_id and personas whose channel exists
\* get no new channel, a channel that was created is a text channel of the
\* guild named by the persona's slug, and for every persona listed in
\* created the agent service's channel_id is the new channel's id.
C6_SyncCreatesMissing ==
  last.op = "sync"
  => /\ \A e \in SyncLog :
          /\ e.attempted <=> (e.channel_id # NullId /\ ~e.inGuild)
          /\ ~e.attempted => e.newChannel = NullId
          /\ e.newChannel # NullId
               => \E c \in channels :
                    /\ c.id = e.newChannel
                    /\ c.type = "text"
                    /\ c.name = slugifyPersonaName(e.name)
     /\ CreatedAreUpdated

\* A sync that created a channel for a persona whose channel was missing
\* and left a persona without channel_id alone.
C6_Witness ==
  /\ last.op = "sync"
  /\ Len(last.created_list) = 1
  /\ \E e \in SyncLog : e.channel_id = 99 /\ e.newChannel # NullId
  /\ \E e \in SyncLog : e.channel_id = NullId /\ ~e.attempted

\* C7: the persona-by-channel cache has a 30-second TTL: a lookup made
\* 30000 ms or more after the entry of its channel was stored does not
\* return the entry, and a lookup made before then, the entry not
\* invalidated, returns the stored result and sends no listPersonas request.
C7_CacheTtl ==
  (last.op \in {"command", "message"} /\ last.looked)
  => /\ last.fromCache
          <=> (last.entry # None /\ last.at < last.entry[1].storedAt + 30000)
     /\ last.fromCache
          => /\ last.persona = last.entry[1].persona
             /\ CountOp(last.requests, "listPersonas") = 0
     /\ ~last.fromCache => CountOp(last.requests, "listPersonas") = 1

\* A lookup answered from an entry stored earlier.
C7_Witness ==
  /\ last.looked
  /\ last.fromCache
  /\ last.at > last.entry[1].storedAt
  /\ last.persona # None

\* The key of the last /chat call: its user id, a colon, its persona name
\* in lower case.
LastKey == chatLast.user \o <<":">> \o ToLower(chatLast.persona)

\* C8: handleChat keys sessions by (user id, lower-cased persona name): the
\* chat request carries the session id last stored for that user and
\* persona, or none; a successful chat stores the returned session_id under
\* that key and touches no other key; a failed chat leaves activeSessions
\* unchanged; the session id a request carries was opened for its own user.
C8_SessionKeys ==
  chatLast.op = "chat"
  => /\ Len(chatLast.requests) = 1
     /\ chatLast.requests[1].user_id = chatLast.user
     /\ chatLast.requests[1].persona_name = chatLast.persona
     /\ chatLast.requests[1].session_id = chatLast.storedBefore
     /\ chatLast.requests[1].session_id # None
          => chatHistory.owner[chatLast.requests[1].session_id[1]] = chatLast.user
     /\ chatLast.ok
          => /\ DOMAIN activeSessions = DOMAIN chatLast.before \cup {LastKey}
             /\ activeSessions[LastKey] = chatLast.returned
             /\ \A k \in DOMAIN chatLast.before \ {LastKey} :
                  activeSessions[k] = chatLast.before[k]
     /\ ~chatLast.ok => activeSessions = chatLast.before

\* User "12" continued, as "Al", the session stored under another spelling
\* of the persona while another user had a session with the same persona.
C8_Witness ==
  /\ chatLast.op = "chat"
  /\ chatLast.ok
  /\ chatLast.user = <<"1", "2">>
  /\ chatLast.persona = <<"A", "l">>
  /\ chatLast.requests[1].session_id # None
  /\ <<"1", ":", "a", "l">> \in DOMAIN chatLast.before
  /\ chatLast.before[<<"1", ":", "a", "l">>] # chatLast.requests[1].session_id[1]

\* The fetch of the last client call failed: no response, or a non-2xx one.
FetchFailed == http.out.failed \/ ~(http.out.status \in 200..299)

\* C9 as stated: every AgentClient method call issues exactly one HTTP
\* request, and a non-2xx response or a network failure is rethrown as an
\* error whose message is the response's detail, else "HTTP <status>".
C9_Original ==
  http.op # "none"
  => /\ Len(http.fetches) = 1
     /\ FetchFailed => http.threw
     /\ (~http.out.failed /\ FetchFailed)
          => http.message = IF http.out.body = "detail"
                            THEN Msg("detail of the body", 0)
                            ELSE Msg("HTTP ", http.out.status)

\* C9 (amended): no agent-service operation is retried: every AgentClient
\* method call issues exactly one HTTP request, and a non-2xx response or a
\* network failure is rethrown to the caller without a second attempt by
\* every method but interpretError, which catches it. The message of the
\* error of a non-2xx response is the detail of the JSON body when that is
\* truthy, the response's statusText when the body is no JSON and the
\* statusText is not empty, and "HTTP <status>" otherwise; a JSON body null
\* makes reading the detail throw a TypeError, which is rethrown instead.
C9_NoRetry ==
  http.op # "none"
  => /\ Len(http.fetches) = 1
     /\ http.op = "interpretError" => ~http.threw
     /\ (http.op # "interpretError" /\ FetchFailed)
          => /\ http.threw
             /\ http.returned.kind = "none"
             /\ http.out.failed => http.message = Msg("fetch failed", 0)
             /\ (~http.out.failed /\ http.out.body = "detail")
                  => http.message = Msg("detail of the body", 0)
             /\ (~http.out.failed /\ http.out.body = "interpretation")
                  => http.message = Msg("HTTP ", http.out.status)
             /\ (~http.out.failed /\ http.out.body = "not json")
                  => http.message = IF http.out.statusText = ""
                                    THEN Msg("HTTP ", http.out.status)
                                    ELSE Msg(http.out.statusText, 0)
             /\ (~http.out.failed /\ http.out.body = "null")
                  => http.message.text # "HTTP "

\* A chat call got a 502 with a body that is no JSON: one fetch, and the
\* error carries the status text.
C9_Witness ==
  /\ http.op = "chat"
  /\ http.out.status = 502
  /\ http.out.body = "not json"
  /\ http.threw
  /\ http.message = Msg("Bad Gateway", 0)
  /\ Len(http.fetches) = 1

\* C10: agentClient.interpretError never throws: it returns the service's
\* interpretation when the interpret-error request succeeds with one, and
\* "Something went wrong: <errorMessage>" when the request fails.
C10_InterpretErrorNeverThrows ==
  http.op = "interpretError"
  => /\ ~http.threw
     /\ http.returned.kind \in {"string", "undefined"}
     /\ (~http.out.failed /\ http.out.status = 200 /\ http.out.body = "interpretation")
          => http.returned = Returned("string", "", "the interpretation")
     /\ (FetchFailed \/ (http.out.status = 200 /\ http.out.body = "not json"))
          => http.returned = Returned("string", "Something went wrong: ", http.errorMessage)

\* interpretError("boom") against a 502 returned the fallback text.
C10_Witness ==
  /\ http.op = "interpretError"
  /\ http.out.status = 502
  /\ ~http.threw
  /\ http.returned = Returned("string", "Something went wrong: ", "boom")

StepOk(call) == \E i \in DOMAIN last.steps : last.steps[i] = Step(call, TRUE)

\* The names of the guild channels with the given id.
ChannelNames(chs, channelId) == {c.name : c \in {d \in chs : d.id = channelId}}

\* The last command was /persona rename and its handler ran to its reply.
RenameRan ==
  /\ last.op = "command"
  /\ last.cmd = "persona rename"
  /\ last.handler = "handlePersonaRename"
  /\ ~last.threw

\* C12 as stated: when /persona rename has finished, the persona is named
\* new_name if and only if its channel, when it has one, is named
\* slugifyPersonaName(new_name).
C12_Original ==
  (RenameRan /\ last.target \in ChannelIds(channels))
  => ( (HasPersona(agentPersonas, last.newName)
          /\ ChannelOfName(agentPersonas, last.newName) = last.target)
       <=> ChannelNames(channels, last.target) = {slugifyPersonaName(last.newName)} )

\* C12 (amended): when /persona rename has finished, the persona is named
\* new_name exactly when renamePersona succeeded, and it keeps its
\* channel_id. Its channel is named slugifyPersonaName(new_name) whenever
\* channel.setName succeeded, which is the case in every run that replies
\* "Persona Renamed" for a persona whose channel is in the guild; when
\* setName fails the persona stays renamed while the channel keeps its
\* previous name, and the reply is "Persona Renamed (Channel Update
\* Failed)", which is also the reply when only setTopic fails or the channel
\* is not in the guild.
C12_RenameWithChannel ==
  RenameRan
  => /\ StepOk("renamePersona")
          => /\ HasPersona(agentPersonas, last.newName)
             /\ ~HasPersona(agentPersonas, last.name)
             /\ ChannelOfName(agentPersonas, last.newName) = last.target
     /\ ~StepOk("renamePersona")
          => /\ HasPersona(agentPersonas, last.name) = last.existed
             /\ ~last.chanChanged
             /\ FinalTitle = "Error"
     /\ StepOk("setName")
          => ChannelNames(channels, last.target) = {slugifyPersonaName(last.newName)}
     /\ ~StepOk("setName") => ~last.chanChanged
     /\ (FinalTitle = "Persona Renamed" /\ last.target \in ChannelIds(channels))
          => ChannelNames(channels, last.target) = {slugifyPersonaName(last.newName)}
     /\ (FinalTitle = "Persona Renamed (Channel Update Failed)")
          <=> /\ StepOk("renamePersona")
              /\ last.target # NullId
              /\ ~(StepOk("setName") /\ StepOk("setTopic"))

\* A persona with a channel was renamed and its channel with it.
C12_Witness ==
  /\ RenameRan
  /\ FinalTitle = "Persona Renamed"
  /\ last.target \in ChannelIds(channels)
  /\ HasPersona(agentPersonas, last.newName)
  /\ ChannelNames(channels, last.target) = {slugifyPersonaName(last.newName)}

\* The last command was /persona delete with confirm = false, and its
\* handler ran.
DeleteUnconfirmed(l) ==
  /\ l.op = "command"
  /\ l.cmd = "persona delete"
  /\ l.handler = "handlePersonaDelete"
  /\ ~l.confirm
  /\ ~l.threw

\* C13: /persona delete with confirm = false deletes nothing: it sends no
\* agent-service request, makes no awaited call, deletes no Discord channel,
\* leaves the personas, sessions and memories of the service as they were,
\* and replies exactly once, with an ephemeral cancellation message.
C13_UnconfirmedDeletesNothing ==
  /\ [](DeleteUnconfirmed(last)
        => /\ last.requests = <<>>
           /\ last.steps = <<>>
           /\ ~last.chanChanged
           /\ OneEphemeralReply(last.replies)
           /\ last.replies[1].title = "Deletion cancelled")
  /\ [][DeleteUnconfirmed(last')
        => UNCHANGED <<agentPersonas, agentSessions, agentMemories, channels,
                       nextChannelId>>]_vars

\* /persona delete with confirm = false named a persona that exists and has
\* a channel in the guild, and both are still there.
C13_Witness ==
  /\ DeleteUnconfirmed(last)
  /\ last.existed
  /\ HasPersona(agentPersonas, last.name)
  /\ last.target \in ChannelIds(channels)

\* The key under which the last /chat end looked for a session.
EndKey == getSessionKey(chatLast.user, chatLast.persona)

\* C14: handleChatEnd sends no request and changes no entry when
\* activeSessions holds no session for the user and persona; when it holds
\* one, it sends one endSession request naming that session, and removes the
\* entry if and only if endSession succeeds, leaving every other entry as it
\* was.
C14_ChatEnd ==
  chatLast.op = "end"
  => /\ EndKey \notin DOMAIN chatLast.before
          => /\ chatLast.requests = <<>>
             /\ activeSessions = chatLast.before
     /\ EndKey \in DOMAIN chatLast.before
          => /\ Len(chatLast.requests) = 1
             /\ chatLast.requests[1].op = "endSession"
             /\ chatLast.requests[1].session_id = Some(chatLast.before[EndKey])
             /\ (EndKey \notin DOMAIN activeSessions) <=> chatLast.ok
             /\ \A k \in DOMAIN chatLast.before \ {EndKey} :
                  k \in DOMAIN activeSessions /\ activeSessions[k] = chatLast.before[k]
             /\ DOMAIN activeSessions \subseteq DOMAIN chatLast.before

\* /chat end found a stored session, endSession failed, and the entry is
\* still there beside another user's entry.
C14_Witness ==
  /\ chatLast.op = "end"
  /\ EndKey \in DOMAIN chatLast.before
  /\ ~chatLast.ok
  /\ EndKey \in DOMAIN activeSessions
  /\ Cardinality(DOMAIN activeSessions) > 1

\* C15: the health endpoint answers a request for /health or / with 503 and
\* status "starting" while the client is not ready and with 200 and status
\* "healthy" once ClientReady has been handled; every other path gets 404;
\* the client never stops being ready, so after a 200 no request for
\* /health or / is answered 503.
C15_Health ==
  /\ [](health.path # ""
        => /\ health.path \in {"/health", "/"}
                => /\ health.ready => (health.status = 200 /\ health.body = "healthy")
                   /\ ~health.ready
                        => (health.status = 503 /\ health.body = "starting")
           /\ health.path \notin {"/health", "/"} => health.status = 404
           /\ health.ready => isReady
           /\ health.everHealthy => (isReady /\ health.status # 503))
  /\ [][isReady => isReady']_vars

\* After a 200 answer, a later request for / was answered 200 again.
C15_Witness ==
  /\ health.everHealthy
  /\ health.path = "/"
  /\ health.status = 200
  /\ last.op = "sync"

\* The response calls of the last interaction that started a response.
InitialResponses ==
  {i \in DOMAIN last.calls :
     last.calls[i].call \in {"reply", "defer"} /\ last.calls[i].ok}

C17_Original ==
  (last.op \in {"command", "message"} /\ last.looked /\ last.fromCache)
  => last.persona = FindPersona(agentPersonas, last.chan)

\* The handler of a persona subcommand ran for the command recorded in l.
PersonaHandlerRan(l, cmds) ==
  /\ l.op = "command"
  /\ l.cmd \in cmds
  /\ l.handler # "none"

\* C18: when the handler of /persona create, delete or rename returns
\* normally, handleCommand leaves the persona cache empty; when the handler
\* of /persona edit returns normally, the entry of the persona's channel is
\* removed and every other entry is left as it was; when the handler throws,
\* no entry is removed: the cache is as the command's location check left
\* it, which for create, delete and rename is as it was before the command
\* and for edit may hold the entry the lookup of the channel stored.
C18_CacheInvalidation ==
  [][ /\ (PersonaHandlerRan(last', {"persona create", "persona delete", "persona rename"})
            /\ ~last'.threw)
           => personaCache' = EmptyMap
      /\ (PersonaHandlerRan(last', {"persona create", "persona delete", "persona rename"})
            /\ last'.threw)
           => personaCache' = personaCache
      /\ (PersonaHandlerRan(last', {"persona edit"}) /\ ~last'.threw)
           => personaCache' = MapDelete(personaCache, last'.chan)
      /\ (PersonaHandlerRan(last', {"persona edit"}) /\ last'.threw)
           => /\ last'.chan \in DOMAIN personaCache'
              /\ personaCache'[last'.chan].persona = last'.persona
              /\ last'.fromCache => personaCache' = personaCache
              /\ MapDelete(personaCache', last'.chan) = MapDelete(personaCache, last'.chan)
    ]_vars

\* /persona edit returned normally in persona channel 5 whose entry was
\* cached: that entry is gone and the entry of channel 1 is still there.
C18_Witness ==
  /\ PersonaHandlerRan(last, {"persona edit"})
  /\ ~last.threw
  /\ last.chan = 5
  /\ last.entry # None
  /\ DOMAIN personaCache = {1}

\* The last command was /persona create and its handler started.
CreateRan ==
  /\ last.op = "command"
  /\ last.cmd = "persona create"
  /\ last.handler = "handlePersonaCreate"
  /\ last.steps # <<>>

\* The last handler made the awaited call.
StepMade(call) == \E i \in DOMAIN last.steps : last.steps[i].call = call

\* The ids of the channels the last /persona create made: the channel_id of
\* its updatePersona request.
MadeChannels ==
  {last.requests[i].channel :
     i \in {j \in DOMAIN last.requests : last.requests[j].op = "updatePersona"}}

\* C19 as stated: when /persona create has created the persona and
\* updatePersona then fails, the handler deletes the channel and the persona
\* it created, so that neither remains.
C19_Original ==
  (CreateRan
     /\ Step("updatePersona", FALSE) \in {last.steps[i] : i \in DOMAIN last.steps})
  => /\ ~HasPersona(agentPersonas, last.name)
     /\ MadeChannels \cap ChannelIds(channels) = {}

\* C19 (amended): when createPersona fails, /persona create deletes nothing.
\* When only the channel creation fails, the persona is kept without a
\* channel and no deletePersona request is sent. When the persona was created
\* and a later step other than the channel creation fails (updatePersona, or
\* the reply of the try block), the handler calls channel.delete on the
\* channel it created, if it created one, and sends one deletePersona
\* request, ignoring the errors of both: the channel is gone unless
\* channel.delete failed and the persona is gone unless deletePersona failed.
C19_CreateCleanup ==
  CreateRan
  => /\ ~StepOk("createPersona")
          => /\ last.steps = <<Step("createPersona", FALSE)>>
             /\ CountOp(last.requests, "deletePersona") = 0
             /\ ~last.chanChanged
             /\ HasPersona(agentPersonas, last.name) = last.existed
     /\ last.steps = <<Step("createPersona", TRUE), Step("createPersonaChannel", FALSE)>>
          => /\ HasPersona(agentPersonas, last.name)
             /\ ChannelOfName(agentPersonas, last.name) = NullId
             /\ CountOp(last.requests, "deletePersona") = 0
     /\ (StepOk("createPersona")
           /\ (Step("updatePersona", FALSE) \in {last.steps[i] : i \in DOMAIN last.steps}
                 \/ \E i \in DOMAIN last.calls :
                      i > 1 /\ last.calls[i].title # "Error" /\ ~last.calls[i].ok))
          => /\ CountOp(last.requests, "deletePersona") = 1
             /\ last.steps[Len(last.steps)].call = "deletePersona"
             /\ HasPersona(agentPersonas, last.name) <=> ~StepOk("deletePersona")
             /\ StepMade("channel.delete") <=> StepOk("createPersonaChannel")
             /\ (MadeChannels \cap ChannelIds(channels) # {})
                  <=> (StepMade("channel.delete") /\ ~StepOk("channel.delete"))
     /\ StepMade("deletePersona") => StepOk("createPersona")

\* updatePersona failed after the persona and its channel were created, and
\* the cleanup removed both.
C19_Witness ==
  /\ CreateRan
  /\ Step("updatePersona", FALSE) \in {last.steps[i] : i \in DOMAIN last.steps}
  /\ StepOk("channel.delete")
  /\ StepOk("deletePersona")
  /\ ~HasPersona(agentPersonas, last.name)
  /\ MadeChannels # {}
  /\ MadeChannels \cap ChannelIds(channels) = {}

\* The last command was a confirmed /persona delete whose handler started.
DeleteRan ==
  /\ last.op = "command"
  /\ last.cmd = "persona delete"
  /\ last.handler = "handlePersonaDelete"
  /\ last.confirm
  /\ last.steps # <<>>

\* The awaited calls of the last handler, in order.
StepCalls == [i \in DOMAIN last.steps |-> last.steps[i].call]

\* The operations of the agent-service requests of the last handler, in
\* order, interpretError left out.
RECURSIVE OpsOf(_)
OpsOf(requests) ==
  IF requests = <<>> THEN <<>>
  ELSE (IF Head(requests).op = "interpretError" THEN <<>> ELSE <<Head(requests).op>>)
       \o OpsOf(Tail(requests))

\* C20: in /persona delete the deletePersona request is sent last, after the
\* deletion of the channel session, of the memories and of the Discord
\* channel have each been attempted, in that order (the session and the
\* channel only for a persona that has a channel_id); a failure of any of
\* the three does not prevent the steps after it, and each one that succeeds
\* has its effect; when the initial getPersona fails no deletion is
\* attempted.
C20_DeleteOrder ==
  DeleteRan
  => /\ ~StepOk("getPersona")
          => /\ last.steps = <<Step("getPersona", FALSE)>>
             /\ OpsOf(last.requests) = <<"getPersona">>
             /\ ~last.chanChanged
             /\ HasPersona(agentPersonas, last.name) = last.existed
     /\ (StepOk("getPersona") /\ last.target # NullId)
          => /\ StepCalls = <<"getPersona", "deleteChannelSession",
                              "deletePersonaMemories", "deletePersonaChannel",
                              "deletePersona">>
             /\ OpsOf(last.requests) = <<"getPersona", "deleteChannelSession",
                                         "deletePersonaMemories", "deletePersona">>
             /\ StepOk("deleteChannelSession") => last.target \notin agentSessions
             /\ StepOk("deletePersonaChannel") => last.target \notin ChannelIds(channels)
     /\ (StepOk("getPersona") /\ last.target = NullId)
          => /\ StepCalls = <<"getPersona", "deletePersonaMemories", "deletePersona">>
             /\ OpsOf(last.requests) = StepCalls
             /\ ~last.chanChanged
     /\ StepOk("deletePersonaMemories") => last.name \notin agentMemories
     /\ StepOk("deletePersona") => ~HasPersona(agentPersonas, last.name)

\* Deleting the session, the memories and the channel of a persona all
\* failed, and deletePersona was still sent and deleted the persona.
C20_Witness ==
  /\ DeleteRan
  /\ last.steps = <<Step("getPersona", TRUE), Step("deleteChannelSession", FALSE),
                    Step("deletePersonaMemories", FALSE),
                    Step("deletePersonaChannel", FALSE), Step("deletePersona", TRUE)>>
  /\ ~HasPersona(agentPersonas, last.name)
  /\ last.target \in ChannelIds(channels)

\* C21 as stated: the chat requests for messages posted in the same persona
\* channel are sent to the agent service in the order in which the messages
\* arrived, also when the cache holds no valid entry for the channel and
\* several lookups are pending at once.
C21_Original ==
  \A i, j \in DOMAIN autoChat.sent :
    (i < j /\ autoChat.sent[i].channel = autoChat.sent[j].channel)
    => autoChat.sent[i].message < autoChat.sent[j].message

====
